---- MODULE Spec2Model ----
(***************************************************************************)
(* Audio relay gateway (BFF) of VoiceAI: one client session of             *)
(* attachGateway (backend/src/services/ModelApiService.ts, the file that   *)
(* carries src/websocket/gateway.ts) together with its upstream relay      *)
(* client ModelApiService (unnamed/part_000).                              *)
(*                                                                         *)
(* Buffers are sequences of bytes (0..255).  A WebSocket is its readyState *)
(* plus the log of what was written to it.                                 *)
(***************************************************************************)
EXTENDS Integers, Sequences, FiniteSets, TLC

\* ------------------------------------------------------------------------
\* Tunables (ModelApiService.ts:69-78).  FRAME_MS is read from the
\* environment (BFF_AUDIO_FRAME_MS); the model runs the gateway with
\* BFF_AUDIO_FRAME_MS=1 so that a frame is 32 bytes; FrameBytesOf gives the
\* frame length of any configuration, the default one included.
\* ------------------------------------------------------------------------
TARGET_SR == 16000
TARGET_CH == 1
FRAME_MS == 1
DEFAULT_IN_ENCODING == "pcm16le"
ENABLE_RECORD == TRUE
DOWN_MAX_BUFFERED == 524288

Max2(a, b) == IF a >= b THEN a ELSE b
Min2(a, b) == IF a <= b THEN a ELSE b

FrameBytesOf(sr, ms, ch) == Max2(1, ((sr * ms) \div 1000) * 2 * ch)
FRAME_BYTES == FrameBytesOf(TARGET_SR, FRAME_MS, TARGET_CH)

\* ------------------------------------------------------------------------
\* Bounds of the model
\* ------------------------------------------------------------------------
\* messages a session receives, from the client and from the upstream together
MaxMsgs == 3

\* ------------------------------------------------------------------------
\* Byte / sample helpers
\* ------------------------------------------------------------------------
RECURSIVE Pow2(_)
Pow2(n) == IF n = 0 THEN 1 ELSE 2 * Pow2(n - 1)

\* Int16Array view of little-endian bytes: n samples starting at byte 1
ToInt16(lo, hi) ==
  LET u == lo + 256 * hi IN IF u >= 32768 THEN u - 65536 ELSE u

Int16View(buf, n) == [i \in 1..n |-> ToInt16(buf[2 * i - 1], buf[2 * i])]

\* Buffer.from(int16.buffer, ...): the bytes of an Int16Array
BytesOfInt16(pcm) ==
  [k \in 1..(2 * Len(pcm)) |->
     LET s == pcm[(k + 1) \div 2]
         u == IF s < 0 THEN s + 65536 ELSE s
     IN IF k % 2 = 1 THEN u % 256 ELSE u \div 256]

\* x | 0 on a half-integer quotient: num/2 truncated toward zero
TruncHalf(num) == IF num >= 0 THEN num \div 2 ELSE -((-num) \div 2)

\* JSON null / undefined of a numeric field (distinct from the falsy 0)
Nullish == -1

\* ------------------------------------------------------------------------
\* Audio normalizer (pure functions)
\* ------------------------------------------------------------------------
\* A decode result: ok = FALSE is the `null` the normalizer returns
Null == [ok |-> FALSE, data |-> <<>>]
Pcm(bytes) == [ok |-> TRUE, data |-> bytes]

U16LE(buf, off) == buf[off + 1] + 256 * buf[off + 2]
U32LE(buf, off) ==
  buf[off + 1] + 256 * buf[off + 2] + 65536 * buf[off + 3] + 16777216 * buf[off + 4]

TagRIFF == <<82, 73, 70, 70>>
TagWAVE == <<87, 65, 86, 69>>
TagFmt == <<102, 109, 116, 32>>
TagData == <<100, 97, 116, 97>>

isWav(buf) ==
  /\ Len(buf) >= 12
  /\ SubSeq(buf, 1, 4) = TagRIFF
  /\ SubSeq(buf, 9, 12) = TagWAVE

\* The chunk loop of parseWavPcm16le.  st = [sr, ch, hasData, dataStart,
\* dataEnd]; the result is [ok, thrown, sr, ch, dataStart, dataEnd].
\* A read past the end of the buffer throws (thrown = TRUE).
RECURSIVE WavChunks(_, _, _)
WavChunks(buf, offset, st) ==
  IF offset + 8 > Len(buf)
  THEN [ok |-> st.hasData, thrown |-> FALSE, sr |-> st.sr, ch |-> st.ch,
        dataStart |-> st.dataStart, dataEnd |-> st.dataEnd]
  ELSE
    LET id == SubSeq(buf, offset + 1, offset + 4)
        size == U32LE(buf, offset + 4)
        start == offset + 8
    IN IF id = TagFmt
       THEN IF start + 16 > Len(buf)
            THEN [ok |-> FALSE, thrown |-> TRUE, sr |-> st.sr, ch |-> st.ch,
                  dataStart |-> 0, dataEnd |-> 0]
            ELSE LET fmt == U16LE(buf, start)
                     ch == U16LE(buf, start + 2)
                     sr == U32LE(buf, start + 4)
                     bps == U16LE(buf, start + 14)
                 IN IF fmt # 1 \/ bps # 16
                    THEN [ok |-> FALSE, thrown |-> FALSE, sr |-> sr, ch |-> ch,
                          dataStart |-> 0, dataEnd |-> 0]
                    ELSE WavChunks(buf, start + size,
                                   [st EXCEPT !.sr = sr, !.ch = ch])
       ELSE IF id = TagData
       THEN WavChunks(buf, start + size,
                      [st EXCEPT !.hasData = TRUE,
                                 !.dataStart = Min2(start, Len(buf)),
                                 !.dataEnd = Max2(Min2(start, Len(buf)),
                                                  Min2(start + size, Len(buf)))])
       ELSE WavChunks(buf, start + size, st)

\* Variant of the WAV parser that checks the fmt chunk but keeps the canonical
\* rate and channel count whatever it declares
parseWavPcm16le_IgnoresFmt(buf) ==
  IF ~isWav(buf)
  THEN [ok |-> FALSE, thrown |-> FALSE, sr |-> TARGET_SR, ch |-> TARGET_CH,
        dataStart |-> 0, dataEnd |-> 0]
  ELSE [WavChunks(buf, 12, [sr |-> TARGET_SR, ch |-> TARGET_CH, hasData |-> FALSE,
                            dataStart |-> 0, dataEnd |-> 0])
          EXCEPT !.sr = TARGET_SR, !.ch = TARGET_CH]

parseWavPcm16le(buf) ==
  IF ~isWav(buf)
  THEN [ok |-> FALSE, thrown |-> FALSE, sr |-> TARGET_SR, ch |-> TARGET_CH,
        dataStart |-> 0, dataEnd |-> 0]
  ELSE WavChunks(buf, 12, [sr |-> TARGET_SR, ch |-> TARGET_CH, hasData |-> FALSE,
                           dataStart |-> 0, dataEnd |-> 0])

\* mu-law decode table entry i (0..255)
MU_LAW_TABLE(i) ==
  LET mu == 255 - i
      sign == IF mu >= 128 THEN -1 ELSE 1
      exponent == (mu \div 16) % 8
      mantissa == mu % 16
      mag == ((mantissa * 8) + 132) * Pow2(exponent)
  IN sign * (mag - 132)

muLawToPcm16(buf) == [i \in 1..Len(buf) |-> MU_LAW_TABLE(buf[i])]

\* Variant of the downmix that halves each channel before adding
\* ((a >> 1) + (b >> 1))
downmixStereoToMono_ShiftFirst(int16) ==
  IF Len(int16) % 2 # 0 THEN int16
  ELSE [j \in 1..(Len(int16) \div 2) |->
          ((int16[2 * j - 1] - (int16[2 * j - 1] % 2)) \div 2)
            + ((int16[2 * j] - (int16[2 * j] % 2)) \div 2)]

downmixStereoToMono(int16) ==
  IF Len(int16) % 2 # 0 THEN int16
  ELSE [j \in 1..(Len(int16) \div 2) |->
          TruncHalf(int16[2 * j - 1] + int16[2 * j])]

\* Math.round of num/den (den > 0): floor(x + 1/2)
RoundDiv(num, den) == (2 * num + den) \div (2 * den)

\* The interpolation loop of the resampler for a given output length
ResampleLoop(int16, fromSr, toSr, outLen) ==
  LET n == Len(int16)
  IN [k \in 1..outLen |->
        IF n = 0 THEN 0   \* NaN stored into an Int16Array
        ELSE
          LET i == k - 1
              i0 == (i * fromSr) \div toSr
              r == (i * fromSr) % toSr
              i1 == Min2(i0 + 1, n - 1)
              num == (toSr - r) * int16[i0 + 1] + r * int16[i1 + 1]
          IN IF num < -32768 * toSr THEN -32768
             ELSE IF num > 32767 * toSr THEN 32767
             ELSE RoundDiv(num, toSr)]

\* Variants of the resampler: one that rounds the output length up, one
\* without the early return for equal rates
resamplePcm16Mono_Ceil(int16, fromSr, toSr) ==
  IF fromSr = toSr THEN int16
  ELSE ResampleLoop(int16, fromSr, toSr,
                    Max2(1, (Len(int16) * toSr + fromSr - 1) \div fromSr))

resamplePcm16Mono_NoShortcut(int16, fromSr, toSr) ==
  ResampleLoop(int16, fromSr, toSr, Max2(1, (Len(int16) * toSr) \div fromSr))

\* Linear resampler; the rates are positive and rate ratios are exact
resamplePcm16Mono(int16, fromSr, toSr) ==
  IF fromSr = toSr THEN int16
  ELSE
    LET n == Len(int16)
        outLen == Max2(1, (n * toSr) \div fromSr)
    IN [k \in 1..outLen |->
          IF n = 0 THEN 0   \* NaN stored into an Int16Array
          ELSE
            LET i == k - 1
                i0 == (i * fromSr) \div toSr
                r == (i * fromSr) % toSr
                i1 == Min2(i0 + 1, n - 1)
                num == (toSr - r) * int16[i0 + 1] + r * int16[i1 + 1]
            IN IF num < -32768 * toSr THEN -32768
               ELSE IF num > 32767 * toSr THEN 32767
               ELSE RoundDiv(num, toSr)]

ToLowerCase(s) ==
  CASE s = "PCM16LE" -> "pcm16le"
    [] s = "MULAW" -> "mulaw"
    [] s = "WAV" -> "wav"
    [] OTHER -> s

\* new Int16Array(buffer, byteOffset, byteLength / 2) over `bytes`: a view of
\* floor(len/2) samples; an odd byteOffset throws a RangeError.
Int16OfBuffer(bytes) == Int16View(bytes, Len(bytes) \div 2)

\* payload = [bytes, offsetOdd]: the Buffer handed over by the socket and the
\* parity of its byteOffset in the underlying ArrayBuffer.
\* hints = [encoding, sample_rate, channels]; "" / 0 are the falsy values.
normalizeToStandardPcm(payload, hints) ==
  LET enc == ToLowerCase(IF hints.encoding # "" THEN hints.encoding
                         ELSE DEFAULT_IN_ENCODING)
  IN
  IF enc = "wav" \/ isWav(payload.bytes)
  THEN
    LET wav == parseWavPcm16le(payload.bytes)
    IN IF ~wav.ok THEN Null
       ELSE IF (wav.dataStart % 2 = 1) # payload.offsetOdd THEN Null
       ELSE IF wav.sr = 0 THEN Null
       ELSE
         LET pcm0 == Int16OfBuffer(SubSeq(payload.bytes, wav.dataStart + 1, wav.dataEnd))
             pcm1 == IF wav.ch = 2 THEN downmixStereoToMono(pcm0) ELSE pcm0
             pcm2 == IF wav.sr # TARGET_SR
                     THEN resamplePcm16Mono(pcm1, wav.sr, TARGET_SR) ELSE pcm1
         IN Pcm(BytesOfInt16(pcm2))
  ELSE IF enc \in {"mulaw", "mu-law", "ulaw", "g711"}
  THEN
    LET fromSr == IF hints.sample_rate # 0 THEN hints.sample_rate ELSE 8000
        pcm8 == muLawToPcm16(payload.bytes)
        pcm16 == resamplePcm16Mono(pcm8, fromSr, TARGET_SR)
    IN Pcm(BytesOfInt16(pcm16))
  ELSE IF enc = "pcm16le"
  THEN
    IF payload.offsetOdd THEN Null
    ELSE
      LET pcm0 == Int16OfBuffer(payload.bytes)
          fromCh == IF hints.channels \notin {Nullish, 0} THEN hints.channels ELSE 1
          pcm1 == IF fromCh = 2 THEN downmixStereoToMono(pcm0) ELSE pcm0
          fromSr == IF hints.sample_rate # 0 THEN hints.sample_rate ELSE TARGET_SR
          pcm2 == IF fromSr # TARGET_SR
                  THEN resamplePcm16Mono(pcm1, fromSr, TARGET_SR) ELSE pcm1
      IN Pcm(BytesOfInt16(pcm2))
  ELSE Null

\* ------------------------------------------------------------------------
\* Base64 (strings are sequences of sextets 0..63, with 64 for '=')
\* ------------------------------------------------------------------------
B64Pad == 64

\* Buffer.toString("base64"), as the clients encode legacy audio
B64Encode(bytes) ==
  LET n == Len(bytes)
      at(k) == IF k <= n THEN bytes[k] ELSE 0
  IN [c \in 1..(4 * ((n + 2) \div 3)) |->
        LET g == (c - 1) \div 4
            pos == (c - 1) % 4
            b0 == at(3 * g + 1)
            b1 == at(3 * g + 2)
            b2 == at(3 * g + 3)
        IN CASE pos = 0 -> b0 \div 4
             [] pos = 1 -> (b0 % 4) * 16 + b1 \div 16
             [] pos = 2 -> IF 3 * g + 2 > n THEN B64Pad ELSE (b1 % 16) * 4 + b2 \div 64
             [] pos = 3 -> IF 3 * g + 3 > n THEN B64Pad ELSE b2 % 64]

RECURSIVE B64DataLen(_, _)
B64DataLen(str, k) ==
  IF k > Len(str) \/ str[k] = B64Pad THEN k - 1 ELSE B64DataLen(str, k + 1)

\* Buffer.from(str, "base64"): decoding stops at the first padding character
B64Decode(str) ==
  LET n == B64DataLen(str, 1)
      outLen == (n \div 4) * 3 + (CASE n % 4 = 2 -> 1 [] n % 4 = 3 -> 2 [] OTHER -> 0)
  IN [k \in 1..outLen |->
        LET g == (k - 1) \div 3
            pos == (k - 1) % 3
            c0 == str[4 * g + 1]
            c1 == str[4 * g + 2]
            c2 == IF 4 * g + 3 <= n THEN str[4 * g + 3] ELSE 0
            c3 == IF 4 * g + 4 <= n THEN str[4 * g + 4] ELSE 0
        IN CASE pos = 0 -> c0 * 4 + c1 \div 16
             [] pos = 1 -> (c1 % 16) * 16 + c2 \div 4
             [] pos = 2 -> (c2 % 4) * 64 + c3]

\* ------------------------------------------------------------------------
\* Session state (the closure variables of the connection handler)
\* ------------------------------------------------------------------------
VARIABLES
  pc,             \* "connecting" (awaiting upstream.connect) | "active" | "aborted"
  clientRS,       \* client socket: "OPEN" | "CLOSING" | "ENDING" | "CLOSED"
  clientCloseCode,\* status code of the close frame the gateway sent (0: none)
  bufferedAmount, \* client.bufferedAmount
  pingTimer,      \* keepalive interval armed
  clientAlive,
  upRS,           \* upstream socket: "CONNECTING" | "OPEN" | "CLOSING" | "ENDING" | "CLOSED"
  sessionHints,
  frameAcc,
  accPcm,
  downAcc,
  downTimer,      \* flush timeout armed
  wavFiles,       \* recordings written by writeWavFile (their PCM data)
  upSent,         \* messages written to the upstream socket, in order
  clientOut,      \* messages written to the client socket, in order
  normLog,        \* history: normalized chunks handed to drainFrames, in order
  framesOut,      \* history: number of frames drainFrames handed to sendBinary
  upIn,           \* history: binary chunks received from upstream, in order
  nClientMsgs,    \* history: messages the client has sent
  nUpMsgs,        \* history: messages the upstream has sent
  onCloseCalls,   \* history: invocations of the upstream.onClose callback
  clientLog,      \* history: what became of each client message, in order
  flushTimeouts,  \* timeouts set by scheduleFlush that the runtime still holds
  call,           \* a function of the module under evaluation: its arguments and result
  sessions        \* the connection handlers of a server that accepted several clients

vars == <<pc, clientRS, clientCloseCode, bufferedAmount, pingTimer, clientAlive, upRS,
          sessionHints, frameAcc, accPcm, downAcc, downTimer, wavFiles, upSent,
          clientOut, normLog, framesOut, upIn, nClientMsgs, nUpMsgs,
          onCloseCalls, clientLog, flushTimeouts, call, sessions>>

\* readyState as the code sees it: a socket that is ending is CLOSING
ReadyState(rs) == IF rs = "ENDING" THEN "CLOSING" ELSE rs

BinMsg(bytes) == [kind |-> "bin", data |-> bytes]
JsonMsg(obj) == [kind |-> "json", obj |-> obj]

RECURSIVE Concat(_)
Concat(chunks) ==
  IF chunks = <<>> THEN <<>> ELSE Head(chunks) \o Concat(Tail(chunks))

\* the binary payloads of a message log, in order
RECURSIVE BinData(_)
BinData(log) ==
  IF log = <<>> THEN <<>>
  ELSE IF Head(log).kind = "bin" THEN <<Head(log).data>> \o BinData(Tail(log))
  ELSE BinData(Tail(log))

Has(log, x) == \E i \in 1..Len(log) : log[i] = x

IsPrefix(a, b) == Len(a) <= Len(b) /\ SubSeq(b, 1, Len(a)) = a

\* ------------------------------------------------------------------------
\* Inputs of the environment
\* ------------------------------------------------------------------------
\* The bytes of the k-th message: every byte differs from its neighbours, so a
\* byte that is dropped, repeated or moved shows
MkBytes(k, len) == [i \in 1..len |-> (k * 61 + i * 7) % 256]

Payload(bytes, odd) == [bytes |-> bytes, offsetOdd |-> odd]

ClientPayloads(k) ==
  { Payload(MkBytes(k, FRAME_BYTES - 2), FALSE),
    Payload(MkBytes(k, 2 * FRAME_BYTES + 2), FALSE),
    Payload(MkBytes(k, FRAME_BYTES - 2), TRUE) }

\* A parsed JSON object of the client: absent fields hold the falsy value of
\* their type ("" / 0 / <<>>), an absent `channels` is Nullish
EmptyObj ==
  [type |-> "", encoding |-> "", codec |-> "", sample_rate |-> 0, sampleRate |-> 0,
   channels |-> Nullish, chunk_data |-> <<>>, data |-> <<>>, audio |-> <<>>,
   audio_data |-> <<>>, b64 |-> <<>>, base64 |-> <<>>]

Text(obj) == [valid |-> TRUE, obj |-> obj]
InvalidText == [valid |-> FALSE, obj |-> EmptyObj]

ClientTexts(k) ==
  { InvalidText,
    Text([EmptyObj EXCEPT !.type = "audio_meta", !.encoding = "MULAW",
                          !.sample_rate = 8000]),
    Text([EmptyObj EXCEPT !.type = "voicechunk",
                          !.chunk_data = B64Encode(MkBytes(k, FRAME_BYTES - 2))]),
    Text([EmptyObj EXCEPT !.type = "voicechunk", !.codec = "mulaw",
                          !.audio = B64Encode(MkBytes(k, 5))]),
    Text([EmptyObj EXCEPT !.type = "voicechunk", !.codec = "opus",
                          !.data = B64Encode(MkBytes(k, 3))]),
    Text([EmptyObj EXCEPT !.type = "end_of_stream"]) }

UpstreamChunks(k) == { MkBytes(100 + k, 3) }
UpstreamEvents(k) == { [type |-> "chat_message", seq |-> k] }

BufferedLevels == { 0, DOWN_MAX_BUFFERED, DOWN_MAX_BUFFERED + 1 }

\* ------------------------------------------------------------------------
\* ModelApiService (upstream relay client) and the client socket
\* ------------------------------------------------------------------------
\* sendBinary / sendJson: dropped unless the upstream socket is OPEN
sendBinary(rs, log, buf) ==
  IF ReadyState(rs) # "OPEN" THEN log ELSE Append(log, BinMsg(buf))

\* Variant of sendJson that writes the message twice
sendJson_Twice(rs, log, obj) ==
  IF ReadyState(rs) # "OPEN" THEN log ELSE Append(Append(log, JsonMsg(obj)), JsonMsg(obj))

sendJson(rs, log, obj) ==
  IF ReadyState(rs) # "OPEN" THEN log ELSE Append(log, JsonMsg(obj))

\* close(): ws.close() starts the closing handshake of an open socket
UpstreamClose(rs) ==
  CASE rs = "OPEN" -> "CLOSING"
    [] rs = "CONNECTING" -> "CLOSED"
    [] OTHER -> rs

\* client.send(...): written only to an open socket
ClientSend(rs, log, msg) ==
  IF ReadyState(rs) # "OPEN" THEN log ELSE Append(log, msg)

\* Variant of client.close that starts the closing handshake whatever the
\* state of the socket, a closed one included
ClientCloseRS_Reopens(rs) == "CLOSING"

\* client.close(code, reason): the close frame goes out only from OPEN
ClientCloseRS(rs) == IF rs = "OPEN" THEN "CLOSING" ELSE rs
ClientCloseCodeAfter(rs, old, code) == IF rs = "OPEN" THEN code ELSE old

\* client.terminate(): destroys the socket, the close event follows
ClientTerminateRS(rs) == IF rs \in {"OPEN", "CLOSING"} THEN "ENDING" ELSE rs

\* ------------------------------------------------------------------------
\* Frame aligner and downlink coalescer
\* ------------------------------------------------------------------------
\* Variants of the aligner loop with a plausible slip each: one that also
\* sends what is left when less than a frame remains, one whose loop test is
\* a strict comparison
RECURSIVE DrainLoop_SendsTail(_, _)
DrainLoop_SendsTail(acc, chunks) ==
  IF Len(acc) > 0
  THEN LET n == Min2(FRAME_BYTES, Len(acc))
       IN DrainLoop_SendsTail(SubSeq(acc, n + 1, Len(acc)),
                              Append(chunks, SubSeq(acc, 1, n)))
  ELSE [frameAcc |-> acc, chunks |-> chunks]

RECURSIVE DrainLoop_Strict(_, _)
DrainLoop_Strict(acc, chunks) ==
  IF Len(acc) > FRAME_BYTES
  THEN DrainLoop_Strict(SubSeq(acc, FRAME_BYTES + 1, Len(acc)),
                        Append(chunks, SubSeq(acc, 1, FRAME_BYTES)))
  ELSE [frameAcc |-> acc, chunks |-> chunks]

\* the while loop of drainFrames: [frameAcc, chunks handed to sendBinary]
RECURSIVE DrainLoop(_, _)
DrainLoop(acc, chunks) ==
  IF Len(acc) >= FRAME_BYTES
  THEN DrainLoop(SubSeq(acc, FRAME_BYTES + 1, Len(acc)),
                 Append(chunks, SubSeq(acc, 1, FRAME_BYTES)))
  ELSE [frameAcc |-> acc, chunks |-> chunks]

\* Variant of drainFrames that puts the new input in front of the remainder
drainFrames_Prepend(acc, buf) == DrainLoop(buf \o acc, <<>>)

drainFrames(acc, buf) == DrainLoop(acc \o buf, <<>>)

RECURSIVE sendBinaryAll(_, _, _)
sendBinaryAll(rs, log, chunks) ==
  IF chunks = <<>> THEN log
  ELSE sendBinaryAll(rs, sendBinary(rs, log, Head(chunks)), Tail(chunks))

\* Variant of record that keeps only the chunk recorded last
record_KeepsLast(acc, buf) == IF ENABLE_RECORD THEN buf ELSE acc

record(acc, buf) == IF ENABLE_RECORD THEN acc \o buf ELSE acc

\* Variant of scheduleFlush without the test for a pending timer
scheduleFlush_NoGuard(timer, pending) == [downTimer |-> TRUE, pending |-> pending + 1]

\* scheduleFlush: [downTimer afterwards, timeouts the runtime holds afterwards]
scheduleFlush(timer, pending) ==
  IF timer THEN [downTimer |-> timer, pending |-> pending]
  ELSE [downTimer |-> TRUE, pending |-> pending + 1]

\* Variants of flushDownlink: one that keeps the buffer after sending it, one
\* without the backpressure test
flushDownlink_NoClear(acc, rs, buffered) ==
  IF Len(acc) = 0 THEN [downAcc |-> acc, out |-> <<>>]
  ELSE IF ReadyState(rs) # "OPEN" THEN [downAcc |-> <<>>, out |-> <<>>]
  ELSE IF buffered # 0 /\ buffered > DOWN_MAX_BUFFERED
       THEN [downAcc |-> acc, out |-> <<>>]
  ELSE [downAcc |-> acc, out |-> <<BinMsg(acc)>>]

flushDownlink_NoBackpressure(acc, rs, buffered) ==
  IF Len(acc) = 0 THEN [downAcc |-> acc, out |-> <<>>]
  ELSE IF ReadyState(rs) # "OPEN" THEN [downAcc |-> <<>>, out |-> <<>>]
  ELSE [downAcc |-> <<>>, out |-> <<BinMsg(acc)>>]

\* flushDownlink: [downAcc afterwards, messages sent to the client]
flushDownlink(acc, rs, buffered) ==
  IF Len(acc) = 0 THEN [downAcc |-> acc, out |-> <<>>]
  ELSE IF ReadyState(rs) # "OPEN" THEN [downAcc |-> <<>>, out |-> <<>>]
  ELSE IF buffered # 0 /\ buffered > DOWN_MAX_BUFFERED
       THEN [downAcc |-> acc, out |-> <<>>]
  ELSE [downAcc |-> <<>>, out |-> <<BinMsg(acc)>>]

\* ------------------------------------------------------------------------
\* Initial state: the connection handler has started the keepalive, created
\* the upstream client and is awaiting upstream.connect()
\* ------------------------------------------------------------------------
GatewayInit ==
  /\ pc = "connecting"
  /\ clientRS = "OPEN"
  /\ clientCloseCode = 0
  /\ bufferedAmount = 0
  /\ pingTimer = TRUE
  /\ clientAlive = TRUE
  /\ upRS = "CONNECTING"
  /\ sessionHints = [encoding |-> DEFAULT_IN_ENCODING, sample_rate |-> TARGET_SR,
                     channels |-> TARGET_CH]
  /\ frameAcc = <<>>
  /\ accPcm = <<>>
  /\ downAcc = <<>>
  /\ downTimer = FALSE
  /\ wavFiles = <<>>
  /\ upSent = <<>>
  /\ clientOut = <<>>
  /\ normLog = <<>>
  /\ framesOut = 0
  /\ upIn = <<>>
  /\ nClientMsgs = 0
  /\ nUpMsgs = 0
  /\ onCloseCalls = 0
  /\ clientLog = <<>>
  /\ flushTimeouts = 0

\* no function is under evaluation and no further session exists
NoCall == [fn |-> "none"]
NoSessions == <<>>

Init ==
  /\ GatewayInit
  /\ call = NoCall
  /\ sessions = NoSessions

\* ------------------------------------------------------------------------
\* Session start
\* ------------------------------------------------------------------------
\* upstream.connect() resolves: the relay client registers its message and
\* close listeners, the gateway wires the callbacks and the client listeners
UpstreamOpen ==
  /\ pc = "connecting"
  /\ upRS = "CONNECTING"
  /\ upRS' = "OPEN"
  /\ pc' = "active"
  /\ UNCHANGED <<clientRS, clientCloseCode, bufferedAmount, pingTimer, clientAlive,
                 sessionHints, frameAcc, accPcm, downAcc, downTimer, wavFiles, upSent,
                 clientOut, normLog, framesOut, upIn, nClientMsgs, nUpMsgs, onCloseCalls, clientLog, flushTimeouts, call, sessions>>

\* Variant of the connect failure path without its `return`: the handler goes
\* on to wire the session
UpstreamConnectError_FallsThrough ==
  /\ pc = "connecting"
  /\ upRS = "CONNECTING"
  /\ upRS' = "CLOSED"
  /\ clientRS' = ClientCloseRS(clientRS)
  /\ clientCloseCode' = ClientCloseCodeAfter(clientRS, clientCloseCode, 1011)
  /\ pingTimer' = FALSE
  /\ pc' = "active"
  /\ UNCHANGED <<bufferedAmount, clientAlive, sessionHints, frameAcc, accPcm, downAcc,
                 downTimer, wavFiles, upSent, clientOut, normLog, framesOut, upIn,
                 nClientMsgs, nUpMsgs, onCloseCalls, clientLog, flushTimeouts, call, sessions>>

\* upstream.connect() rejects: close the client with 1011, stop the keepalive
UpstreamConnectError ==
  /\ pc = "connecting"
  /\ upRS = "CONNECTING"
  /\ upRS' = "CLOSED"
  /\ clientRS' = ClientCloseRS(clientRS)
  /\ clientCloseCode' = ClientCloseCodeAfter(clientRS, clientCloseCode, 1011)
  /\ pingTimer' = FALSE
  /\ pc' = "aborted"
  /\ UNCHANGED <<bufferedAmount, clientAlive, sessionHints, frameAcc, accPcm, downAcc,
                 downTimer, wavFiles, upSent, clientOut, normLog, framesOut, upIn, nClientMsgs,
                 nUpMsgs, onCloseCalls, clientLog, flushTimeouts, call, sessions>>

\* ------------------------------------------------------------------------
\* client -> upstream
\* ------------------------------------------------------------------------
\* record(normalized); drainFrames(normalized)
ForwardAudio(normalized) ==
  LET d == drainFrames(frameAcc, normalized)
  IN /\ accPcm' = record(accPcm, normalized)
     /\ frameAcc' = d.frameAcc
     /\ upSent' = sendBinaryAll(upRS, upSent, d.chunks)
     /\ normLog' = Append(normLog, normalized)
     /\ framesOut' = framesOut + Len(d.chunks)

\* Variant of the binary handler that drops the held remainder along with a
\* chunk it cannot normalize
onClientBinary_FailResets(payload) ==
  /\ clientRS \in {"OPEN", "CLOSING"}
  /\ nClientMsgs + nUpMsgs < MaxMsgs
  /\ nClientMsgs' = nClientMsgs + 1
  /\ LET normalized == normalizeToStandardPcm(payload, sessionHints)
     IN /\ IF pc = "active" /\ normalized.ok
           THEN ForwardAudio(normalized.data)
           ELSE /\ frameAcc' = <<>>
                /\ UNCHANGED <<accPcm, upSent, normLog, framesOut>>
        /\ clientLog' = Append(clientLog,
                               CASE pc = "connecting" /\ normalized.ok -> "unheard"
                                 [] pc = "active" /\ normalized.ok -> "audio"
                                 [] pc = "active" /\ ~normalized.ok -> "normfail"
                                 [] OTHER -> "none")
  /\ UNCHANGED <<pc, clientRS, clientCloseCode, bufferedAmount, pingTimer, clientAlive,
                 upRS, sessionHints, downAcc, downTimer, wavFiles, clientOut, upIn,
                 nUpMsgs, onCloseCalls, flushTimeouts, call, sessions>>

\* client.on("message") for a binary message; before the listeners are wired
\* (and after an aborted start) nobody listens and the message is lost
onClientBinary(payload) ==
  /\ clientRS \in {"OPEN", "CLOSING"}
  /\ nClientMsgs + nUpMsgs < MaxMsgs
  /\ nClientMsgs' = nClientMsgs + 1
  /\ LET normalized == normalizeToStandardPcm(payload, sessionHints)
     IN /\ IF pc = "active" /\ normalized.ok
           THEN ForwardAudio(normalized.data)
           ELSE UNCHANGED <<accPcm, frameAcc, upSent, normLog, framesOut>>
        /\ clientLog' = Append(clientLog,
                               CASE pc = "connecting" /\ normalized.ok -> "unheard"
                                 [] pc = "active" /\ normalized.ok -> "audio"
                                 [] pc = "active" /\ ~normalized.ok -> "normfail"
                                 [] OTHER -> "none")
  /\ UNCHANGED <<pc, clientRS, clientCloseCode, bufferedAmount, pingTimer, clientAlive,
                 upRS, sessionHints, downAcc, downTimer, wavFiles, clientOut, upIn,
                 nUpMsgs, onCloseCalls, flushTimeouts, call, sessions>>

\* a binary message of the client
ClientBinary ==
  /\ clientRS \in {"OPEN", "CLOSING"}
  /\ nClientMsgs + nUpMsgs < MaxMsgs
  /\ \E payload \in ClientPayloads(nClientMsgs + 1) : onClientBinary(payload)

\* obj.chunk_data || obj.data || obj.audio || obj.audio_data || obj.b64 || obj.base64
LegacyB64(obj) ==
  CASE obj.chunk_data # <<>> -> obj.chunk_data
    [] obj.data # <<>> -> obj.data
    [] obj.audio # <<>> -> obj.audio
    [] obj.audio_data # <<>> -> obj.audio_data
    [] obj.b64 # <<>> -> obj.b64
    [] OTHER -> obj.base64

Or(a, b) == IF a # "" THEN a ELSE b
OrNum(a, b) == IF a # 0 THEN a ELSE b
Coalesce(a, b) == IF a # Nullish THEN a ELSE b

\* Variant of the audio_meta update that falls back to the defaults, not to
\* the hints of the session, for the fields a message omits
MetaHints_ResetsOmitted(obj, hints) ==
  [encoding |-> ToLowerCase(Or(obj.encoding, DEFAULT_IN_ENCODING)),
   sample_rate |-> OrNum(obj.sample_rate, OrNum(obj.sampleRate, TARGET_SR)),
   channels |-> Coalesce(obj.channels, TARGET_CH)]

\* the hints an audio_meta message leaves in the session
MetaHints(obj, hints) ==
  [encoding |-> ToLowerCase(Or(obj.encoding, Or(hints.encoding, DEFAULT_IN_ENCODING))),
   sample_rate |-> OrNum(obj.sample_rate,
                         OrNum(obj.sampleRate, OrNum(hints.sample_rate, TARGET_SR))),
   channels |-> Coalesce(obj.channels, Coalesce(hints.channels, TARGET_CH))]

\* the hints a legacy base64 audio message is decoded with
LegacyHints(obj, hints) ==
  [encoding |-> ToLowerCase(Or(obj.encoding,
                               Or(obj.codec, Or(hints.encoding, DEFAULT_IN_ENCODING)))),
   sample_rate |-> OrNum(obj.sample_rate, OrNum(obj.sampleRate, hints.sample_rate)),
   channels |-> Coalesce(obj.channels, hints.channels)]

Ack(hints) == [type |-> "ack", of |-> "audio_meta", sessionHints |-> hints]

\* history: what the text handler does with a message in the current state
TextOutcome(msg) ==
  CASE pc = "connecting" /\ msg.valid -> "unheard"
    [] pc = "active" /\ ~msg.valid -> "badjson"
    [] pc = "active" /\ msg.valid /\ msg.obj.type = "audio_meta" -> "meta"
    [] pc = "active" /\ msg.valid /\ msg.obj.type # "audio_meta"
         /\ LegacyB64(msg.obj) # <<>> ->
           IF normalizeToStandardPcm(Payload(B64Decode(LegacyB64(msg.obj)), FALSE),
                                     LegacyHints(msg.obj, sessionHints)).ok
           THEN "audio" ELSE "normfail"
    [] pc = "active" /\ msg.valid /\ msg.obj.type # "audio_meta"
         /\ LegacyB64(msg.obj) = <<>> -> "json"
    [] OTHER -> "none"

\* Variant of the text handler without the catch around JSON.parse: what does
\* not parse is handled as an empty object
onClientText_NoCatch(msg) ==
  /\ clientRS \in {"OPEN", "CLOSING"}
  /\ nClientMsgs + nUpMsgs < MaxMsgs
  /\ nClientMsgs' = nClientMsgs + 1
  /\ clientLog' = Append(clientLog, TextOutcome(msg))
  /\ IF pc # "active"
     THEN UNCHANGED <<sessionHints, clientOut, accPcm, frameAcc, upSent, normLog, framesOut>>
     ELSE IF msg.obj.type = "audio_meta"
     THEN /\ sessionHints' = MetaHints(msg.obj, sessionHints)
          /\ clientOut' = ClientSend(clientRS, clientOut, JsonMsg(Ack(sessionHints')))
          /\ UNCHANGED <<accPcm, frameAcc, upSent, normLog, framesOut>>
     ELSE IF LegacyB64(msg.obj) # <<>>
     THEN LET raw == Payload(B64Decode(LegacyB64(msg.obj)), FALSE)
              normalized ==
                normalizeToStandardPcm(raw, LegacyHints(msg.obj, sessionHints))
          IN /\ IF normalized.ok
                THEN ForwardAudio(normalized.data)
                ELSE UNCHANGED <<accPcm, frameAcc, upSent, normLog, framesOut>>
             /\ UNCHANGED <<sessionHints, clientOut>>
     ELSE /\ upSent' = sendJson(upRS, upSent, msg.obj)
          /\ UNCHANGED <<sessionHints, clientOut, accPcm, frameAcc, normLog, framesOut>>
  /\ UNCHANGED <<pc, clientRS, clientCloseCode, bufferedAmount, pingTimer, clientAlive,
                 upRS, downAcc, downTimer, wavFiles, upIn, nUpMsgs, onCloseCalls, flushTimeouts, call, sessions>>

\* Variant of the text handler whose audio_meta branch lacks its `return`: the
\* message is acknowledged and then passed on upstream as well
onClientText_MetaFallsThrough(msg) ==
  /\ clientRS \in {"OPEN", "CLOSING"}
  /\ nClientMsgs + nUpMsgs < MaxMsgs
  /\ nClientMsgs' = nClientMsgs + 1
  /\ clientLog' = Append(clientLog, TextOutcome(msg))
  /\ IF pc # "active" \/ ~msg.valid
     THEN UNCHANGED <<sessionHints, clientOut, accPcm, frameAcc, upSent, normLog, framesOut>>
     ELSE IF msg.obj.type = "audio_meta"
     THEN /\ sessionHints' = MetaHints(msg.obj, sessionHints)
          /\ clientOut' = ClientSend(clientRS, clientOut, JsonMsg(Ack(sessionHints')))
          /\ upSent' = sendJson(upRS, upSent, msg.obj)
          /\ UNCHANGED <<accPcm, frameAcc, normLog, framesOut>>
     ELSE IF LegacyB64(msg.obj) # <<>>
     THEN LET raw == Payload(B64Decode(LegacyB64(msg.obj)), FALSE)
              normalized ==
                normalizeToStandardPcm(raw, LegacyHints(msg.obj, sessionHints))
          IN /\ IF normalized.ok
                THEN ForwardAudio(normalized.data)
                ELSE UNCHANGED <<accPcm, frameAcc, upSent, normLog, framesOut>>
             /\ UNCHANGED <<sessionHints, clientOut>>
     ELSE /\ upSent' = sendJson(upRS, upSent, msg.obj)
          /\ UNCHANGED <<sessionHints, clientOut, accPcm, frameAcc, normLog, framesOut>>
  /\ UNCHANGED <<pc, clientRS, clientCloseCode, bufferedAmount, pingTimer, clientAlive,
                 upRS, downAcc, downTimer, wavFiles, upIn, nUpMsgs, onCloseCalls, flushTimeouts, call, sessions>>

\* client.on("message") for a text message
onClientText(msg) ==
  /\ clientRS \in {"OPEN", "CLOSING"}
  /\ nClientMsgs + nUpMsgs < MaxMsgs
  /\ nClientMsgs' = nClientMsgs + 1
  /\ clientLog' = Append(clientLog, TextOutcome(msg))
  /\ IF pc # "active" \/ ~msg.valid
     THEN UNCHANGED <<sessionHints, clientOut, accPcm, frameAcc, upSent, normLog, framesOut>>
     ELSE IF msg.obj.type = "audio_meta"
     THEN /\ sessionHints' = MetaHints(msg.obj, sessionHints)
          /\ clientOut' = ClientSend(clientRS, clientOut, JsonMsg(Ack(sessionHints')))
          /\ UNCHANGED <<accPcm, frameAcc, upSent, normLog, framesOut>>
     ELSE IF LegacyB64(msg.obj) # <<>>
     THEN LET raw == Payload(B64Decode(LegacyB64(msg.obj)), FALSE)
              normalized ==
                normalizeToStandardPcm(raw, LegacyHints(msg.obj, sessionHints))
          IN /\ IF normalized.ok
                THEN ForwardAudio(normalized.data)
                ELSE UNCHANGED <<accPcm, frameAcc, upSent, normLog, framesOut>>
             /\ UNCHANGED <<sessionHints, clientOut>>
     ELSE /\ upSent' = sendJson(upRS, upSent, msg.obj)
          /\ UNCHANGED <<sessionHints, clientOut, accPcm, frameAcc, normLog, framesOut>>
  /\ UNCHANGED <<pc, clientRS, clientCloseCode, bufferedAmount, pingTimer, clientAlive,
                 upRS, downAcc, downTimer, wavFiles, upIn, nUpMsgs, onCloseCalls, flushTimeouts, call, sessions>>

\* a text message of the client
ClientText ==
  /\ clientRS \in {"OPEN", "CLOSING"}
  /\ nClientMsgs + nUpMsgs < MaxMsgs
  /\ \E msg \in ClientTexts(nClientMsgs + 1) : onClientText(msg)

\* ------------------------------------------------------------------------
\* upstream -> client
\* ------------------------------------------------------------------------
\* upstream.onBinary: append to downAcc, scheduleFlush()
UpstreamBinary ==
  /\ pc = "active"
  /\ upRS \in {"OPEN", "CLOSING"}
  /\ nClientMsgs + nUpMsgs < MaxMsgs
  /\ nUpMsgs' = nUpMsgs + 1
  /\ \E buf \in UpstreamChunks(nUpMsgs + 1) :
       /\ downAcc' = downAcc \o buf
       /\ upIn' = Append(upIn, buf)
  /\ LET t == scheduleFlush(downTimer, flushTimeouts)
     IN /\ downTimer' = t.downTimer
        /\ flushTimeouts' = t.pending
  /\ UNCHANGED <<pc, clientRS, clientCloseCode, bufferedAmount, pingTimer, clientAlive,
                 upRS, sessionHints, frameAcc, accPcm, wavFiles, upSent, clientOut,
                 normLog, framesOut, nClientMsgs, onCloseCalls, clientLog, call, sessions>>

\* upstream.onJson: forwarded to the client at once
UpstreamJson ==
  /\ pc = "active"
  /\ upRS \in {"OPEN", "CLOSING"}
  /\ nClientMsgs + nUpMsgs < MaxMsgs
  /\ nUpMsgs' = nUpMsgs + 1
  /\ \E obj \in UpstreamEvents(nUpMsgs + 1) :
       clientOut' = ClientSend(clientRS, clientOut, JsonMsg(obj))
  /\ UNCHANGED <<pc, clientRS, clientCloseCode, bufferedAmount, pingTimer, clientAlive,
                 upRS, sessionHints, frameAcc, accPcm, downAcc, downTimer, wavFiles,
                 upSent, normLog, framesOut, upIn, nClientMsgs, onCloseCalls, clientLog, flushTimeouts, call, sessions>>

\* the timeout armed by scheduleFlush fires: flushDownlink(); downTimer = null
FlushTimerFire ==
  /\ downTimer
  /\ LET f == flushDownlink(downAcc, clientRS, bufferedAmount)
     IN /\ downAcc' = f.downAcc
        /\ clientOut' = clientOut \o f.out
  /\ downTimer' = FALSE
  /\ flushTimeouts' = flushTimeouts - 1
  /\ UNCHANGED <<pc, clientRS, clientCloseCode, bufferedAmount, pingTimer, clientAlive,
                 upRS, sessionHints, frameAcc, accPcm, wavFiles, upSent, normLog, framesOut, upIn,
                 nClientMsgs, nUpMsgs, onCloseCalls, clientLog, call, sessions>>

\* the client's socket buffer fills up or drains (client.bufferedAmount); it
\* holds only what the gateway has written to the client
ClientBufferChange ==
  /\ clientRS = "OPEN"
  /\ clientOut # <<>>
  /\ \E b \in BufferedLevels \ {bufferedAmount} : bufferedAmount' = b
  /\ UNCHANGED <<pc, clientRS, clientCloseCode, pingTimer, clientAlive, upRS,
                 sessionHints, frameAcc, accPcm, downAcc, downTimer, wavFiles, upSent,
                 clientOut, normLog, framesOut, upIn, nClientMsgs, nUpMsgs, onCloseCalls, clientLog, flushTimeouts, call, sessions>>

\* ------------------------------------------------------------------------
\* Teardown
\* ------------------------------------------------------------------------
\* the client starts closing (its close frame arrives): nothing more is read
\* from it, the close event follows
ClientCloseFrame ==
  /\ clientRS = "OPEN"
  /\ clientRS' = "ENDING"
  /\ UNCHANGED <<pc, clientCloseCode, bufferedAmount, pingTimer, clientAlive, upRS,
                 sessionHints, frameAcc, accPcm, downAcc, downTimer, wavFiles, upSent,
                 clientOut, normLog, framesOut, upIn, nClientMsgs, nUpMsgs, onCloseCalls, clientLog, flushTimeouts, call, sessions>>

\* client.on("error"): stopKeepalive(); the socket is destroyed
ClientError ==
  /\ clientRS \in {"OPEN", "CLOSING"}
  /\ clientRS' = "ENDING"
  /\ pingTimer' = IF pc = "active" THEN FALSE ELSE pingTimer
  /\ UNCHANGED <<pc, clientCloseCode, bufferedAmount, clientAlive, upRS, sessionHints,
                 frameAcc, accPcm, downAcc, downTimer, wavFiles, upSent, clientOut,
                 normLog, framesOut, upIn, nClientMsgs, nUpMsgs, onCloseCalls, clientLog, flushTimeouts, call, sessions>>

\* Variant of the close handler without the try/catch around the write: a
\* failing writeWavFile ends the handler
ClientCloseEvent_WriteThrows ==
  /\ clientRS # "CLOSED"
  /\ clientRS' = "CLOSED"
  /\ IF pc = "active"
     THEN /\ pingTimer' = FALSE
          /\ IF ENABLE_RECORD /\ Len(accPcm) > 0
             THEN \E written \in BOOLEAN :
                    /\ wavFiles' = IF written THEN Append(wavFiles, accPcm) ELSE wavFiles
                    /\ frameAcc' = IF written THEN <<>> ELSE frameAcc
                    /\ upRS' = IF written THEN UpstreamClose(upRS) ELSE upRS
             ELSE /\ UNCHANGED wavFiles
                  /\ frameAcc' = <<>>
                  /\ upRS' = UpstreamClose(upRS)
     ELSE UNCHANGED <<pingTimer, wavFiles, frameAcc, upRS>>
  /\ UNCHANGED <<pc, clientCloseCode, bufferedAmount, clientAlive, sessionHints, accPcm,
                 downAcc, downTimer, upSent, clientOut, normLog, framesOut, upIn, nClientMsgs,
                 nUpMsgs, onCloseCalls, clientLog, flushTimeouts, call, sessions>>

\* the remainder zero-padded to a full frame
Padded(acc) == acc \o [i \in 1..(FRAME_BYTES - Len(acc)) |-> 0]

\* Variant of the close handler that flushes the zero-padded remainder
\* upstream before discarding it
ClientCloseEvent_PadFlush ==
  /\ clientRS # "CLOSED"
  /\ clientRS' = "CLOSED"
  /\ IF pc = "active"
     THEN /\ pingTimer' = FALSE
          /\ IF ENABLE_RECORD /\ Len(accPcm) > 0
             THEN \E written \in BOOLEAN :
                    wavFiles' = IF written THEN Append(wavFiles, accPcm) ELSE wavFiles
             ELSE UNCHANGED wavFiles
          /\ upSent' = IF frameAcc # <<>>
                       THEN sendBinary(upRS, upSent, Padded(frameAcc)) ELSE upSent
          /\ frameAcc' = <<>>
          /\ upRS' = UpstreamClose(upRS)
     ELSE UNCHANGED <<pingTimer, wavFiles, frameAcc, upRS, upSent>>
  /\ UNCHANGED <<pc, clientCloseCode, bufferedAmount, clientAlive, sessionHints, accPcm,
                 downAcc, downTimer, clientOut, normLog, framesOut, upIn, nClientMsgs,
                 nUpMsgs, onCloseCalls, clientLog, flushTimeouts, call, sessions>>

\* the client socket's close event; client.on("close") runs if it was wired:
\* stopKeepalive(), write the recording, drop the remainder, upstream.close()
ClientCloseEvent ==
  /\ clientRS # "CLOSED"
  /\ clientRS' = "CLOSED"
  /\ IF pc = "active"
     THEN /\ pingTimer' = FALSE
          /\ IF ENABLE_RECORD /\ Len(accPcm) > 0
             THEN \E written \in BOOLEAN :   \* writeWavFile may throw (caught)
                    wavFiles' = IF written THEN Append(wavFiles, accPcm) ELSE wavFiles
             ELSE UNCHANGED wavFiles
          /\ frameAcc' = <<>>
          /\ upRS' = UpstreamClose(upRS)
     ELSE UNCHANGED <<pingTimer, wavFiles, frameAcc, upRS>>
  /\ UNCHANGED <<pc, clientCloseCode, bufferedAmount, clientAlive, sessionHints, accPcm,
                 downAcc, downTimer, upSent, clientOut, normLog, framesOut, upIn, nClientMsgs,
                 nUpMsgs, onCloseCalls, clientLog, flushTimeouts, call, sessions>>

\* the upstream starts closing (its close frame arrives)
UpstreamCloseFrame ==
  /\ upRS \in {"OPEN", "CLOSING"}
  /\ upRS' = "ENDING"
  /\ UNCHANGED <<pc, clientRS, clientCloseCode, bufferedAmount, pingTimer, clientAlive,
                 sessionHints, frameAcc, accPcm, downAcc, downTimer, wavFiles, upSent,
                 clientOut, normLog, framesOut, upIn, nClientMsgs, nUpMsgs, onCloseCalls, clientLog, flushTimeouts, call, sessions>>

\* Variant of upstream.onClose that leaves the flush timer armed
UpstreamCloseEvent_KeepsFlushTimer ==
  /\ upRS \in {"OPEN", "CLOSING", "ENDING"}
  /\ upRS' = "CLOSED"
  /\ LET f == flushDownlink(downAcc, clientRS, bufferedAmount)
     IN /\ downAcc' = f.downAcc
        /\ clientOut' = clientOut \o f.out
  /\ onCloseCalls' = onCloseCalls + 1
  /\ pingTimer' = FALSE
  /\ clientRS' = ClientCloseRS(clientRS)
  /\ clientCloseCode' = ClientCloseCodeAfter(clientRS, clientCloseCode, 1011)
  /\ UNCHANGED <<pc, bufferedAmount, clientAlive, sessionHints, frameAcc, accPcm, downTimer,
                 wavFiles, upSent, normLog, framesOut, upIn, nClientMsgs, nUpMsgs, clientLog, flushTimeouts, call, sessions>>

\* Variant of the relay client's close listener that stays silent once the
\* gateway has called close() itself
UpstreamCloseEvent_ClosedFlag ==
  /\ upRS \in {"OPEN", "CLOSING", "ENDING"}
  /\ upRS' = "CLOSED"
  /\ IF pc = "active" /\ clientRS = "CLOSED"
     THEN UNCHANGED <<downAcc, clientOut, downTimer, flushTimeouts, onCloseCalls, pingTimer, clientRS,
                      clientCloseCode>>
     ELSE /\ LET f == flushDownlink(downAcc, clientRS, bufferedAmount)
             IN /\ downAcc' = f.downAcc
                /\ clientOut' = clientOut \o f.out
          /\ downTimer' = FALSE
          /\ flushTimeouts' = IF downTimer THEN flushTimeouts - 1 ELSE flushTimeouts
          /\ onCloseCalls' = onCloseCalls + 1
          /\ pingTimer' = FALSE
          /\ clientRS' = ClientCloseRS(clientRS)
          /\ clientCloseCode' = ClientCloseCodeAfter(clientRS, clientCloseCode, 1011)
  /\ UNCHANGED <<pc, bufferedAmount, clientAlive, sessionHints, frameAcc, accPcm,
                 wavFiles, upSent, normLog, framesOut, upIn, nClientMsgs, nUpMsgs, clientLog, call, sessions>>

\* the upstream socket's close event; upstream.onClose runs (it is wired once
\* the connect resolved): flushDownlink(), clear the flush timer,
\* stopKeepalive(), client.close(1011)
UpstreamCloseEvent ==
  /\ upRS \in {"OPEN", "CLOSING", "ENDING"}
  /\ upRS' = "CLOSED"
  /\ LET f == flushDownlink(downAcc, clientRS, bufferedAmount)
     IN /\ downAcc' = f.downAcc
        /\ clientOut' = clientOut \o f.out
  /\ downTimer' = FALSE
  /\ flushTimeouts' = IF downTimer THEN flushTimeouts - 1 ELSE flushTimeouts
  /\ onCloseCalls' = onCloseCalls + 1
  /\ pingTimer' = FALSE
  /\ clientRS' = ClientCloseRS(clientRS)
  /\ clientCloseCode' = ClientCloseCodeAfter(clientRS, clientCloseCode, 1011)
  /\ UNCHANGED <<pc, bufferedAmount, clientAlive, sessionHints, frameAcc, accPcm,
                 wavFiles, upSent, normLog, framesOut, upIn, nClientMsgs, nUpMsgs, clientLog, call, sessions>>

\* ------------------------------------------------------------------------
\* Keepalive
\* ------------------------------------------------------------------------
\* Variant of the keepalive tick whose liveness test is inverted
PingTick_Inverted ==
  /\ pingTimer
  /\ IF clientAlive
     THEN /\ clientRS' = ClientTerminateRS(clientRS)
          /\ pingTimer' = FALSE
          /\ UNCHANGED clientAlive
     ELSE /\ clientAlive' = FALSE
          /\ UNCHANGED <<clientRS, pingTimer>>
  /\ UNCHANGED <<pc, clientCloseCode, bufferedAmount, upRS, sessionHints, frameAcc,
                 accPcm, downAcc, downTimer, wavFiles, upSent, clientOut, normLog, framesOut, upIn,
                 nClientMsgs, nUpMsgs, onCloseCalls, clientLog, flushTimeouts, call, sessions>>

\* the setInterval callback of startKeepalive
PingTick ==
  /\ pingTimer
  /\ IF ~clientAlive
     THEN /\ clientRS' = ClientTerminateRS(clientRS)
          /\ pingTimer' = FALSE
          /\ UNCHANGED clientAlive
     ELSE /\ clientAlive' = FALSE
          /\ UNCHANGED <<clientRS, pingTimer>>
  /\ UNCHANGED <<pc, clientCloseCode, bufferedAmount, upRS, sessionHints, frameAcc,
                 accPcm, downAcc, downTimer, wavFiles, upSent, clientOut, normLog, framesOut, upIn,
                 nClientMsgs, nUpMsgs, onCloseCalls, clientLog, flushTimeouts, call, sessions>>

\* client.on("pong")
ClientPong ==
  /\ clientRS \in {"OPEN", "CLOSING"}
  /\ clientAlive' = TRUE
  /\ UNCHANGED <<pc, clientRS, clientCloseCode, bufferedAmount, pingTimer, upRS,
                 sessionHints, frameAcc, accPcm, downAcc, downTimer, wavFiles, upSent,
                 clientOut, normLog, framesOut, upIn, nClientMsgs, nUpMsgs, onCloseCalls, clientLog, flushTimeouts, call, sessions>>

Next ==
  \/ UpstreamOpen
  \/ UpstreamConnectError
  \/ ClientBinary
  \/ ClientText
  \/ UpstreamBinary
  \/ UpstreamJson
  \/ FlushTimerFire
  \/ ClientBufferChange
  \/ ClientCloseFrame
  \/ ClientError
  \/ ClientCloseEvent
  \/ UpstreamCloseFrame
  \/ UpstreamCloseEvent
  \/ PingTick
  \/ ClientPong

Spec == Init /\ [][Next]_vars

TypeOK ==
  /\ pc \in {"connecting", "active", "aborted"}
  /\ clientRS \in {"OPEN", "CLOSING", "ENDING", "CLOSED"}
  /\ upRS \in {"CONNECTING", "OPEN", "CLOSING", "ENDING", "CLOSED"}
  /\ clientCloseCode \in {0, 1011}
  /\ bufferedAmount \in BufferedLevels
  /\ pingTimer \in BOOLEAN /\ clientAlive \in BOOLEAN /\ downTimer \in BOOLEAN
  /\ \A i \in 1..Len(frameAcc) : frameAcc[i] \in 0..255
  /\ \A i \in 1..Len(accPcm) : accPcm[i] \in 0..255
  /\ \A i \in 1..Len(downAcc) : downAcc[i] \in 0..255
  /\ nClientMsgs \in 0..MaxMsgs
  /\ nUpMsgs \in 0..MaxMsgs
  /\ nClientMsgs + nUpMsgs <= MaxMsgs
  /\ onCloseCalls \in 0..1
  /\ Len(clientLog) = nClientMsgs

\* ========================================================================
\* Properties
\* ========================================================================
UpBytes == Concat(BinData(upSent))       \* audio bytes written upstream
NormBytes == Concat(normLog)             \* normalized audio bytes pushed
DownBytes == Concat(BinData(clientOut))  \* audio bytes written to the client
UpInBytes == Concat(upIn)                \* audio bytes received from upstream

\* C1: every binary message written to the upstream socket has exactly
\* FRAME_BYTES bytes, whatever binary and legacy base64 audio messages the
\* client sent; with the default tunables (16000 Hz, 20 ms, mono, 16 bit) the
\* frame length is 640.
C1_FrameLength ==
  /\ \A i \in 1..Len(upSent) :
       upSent[i].kind = "bin" => Len(upSent[i].data) = FRAME_BYTES
  /\ FrameBytesOf(16000, 20, 1) = 640

\* C1 witness: frames went upstream and a partial frame is being retained
C1_Witness ==
  /\ Len(BinData(upSent)) >= 2
  /\ Len(normLog) >= 2
  /\ frameAcc # <<>>

\* C2: frame aligner conservation: as long as the session has not discarded
\* the remainder (the client has not closed), the bytes emitted as full frames
\* plus the retained remainder equal the N normalized bytes pushed, and the
\* remainder is always shorter than a frame.
C2_Conservation ==
  /\ Len(frameAcc) < FRAME_BYTES
  /\ clientRS # "CLOSED" => framesOut * FRAME_BYTES + Len(frameAcc) = Len(NormBytes)

\* C2 witness: several pushes, frames emitted and a remainder carried over
C2_Witness ==
  /\ Len(normLog) >= 2
  /\ framesOut >= 1
  /\ frameAcc # <<>>
  /\ clientRS # "CLOSED"

RoundDown(n) == (n \div FRAME_BYTES) * FRAME_BYTES
RoundUp(n) == ((n + FRAME_BYTES - 1) \div FRAME_BYTES) * FRAME_BYTES

\* the client's close event is delivered to the wired close handler in this step
ClientClosesNow == pc = "active" /\ clientRS # "CLOSED" /\ clientRS' = "CLOSED"

\* C3 as claimed: on session close a non-empty remainder is zero-padded to a
\* full frame and sent upstream exactly once before it is discarded.
C3_PaddedFlushOnClose ==
  [][(ClientClosesNow /\ upRS = "OPEN" /\ frameAcc # <<>>)
       => upSent' = Append(upSent, BinMsg(Padded(frameAcc)))]_vars

\* C3 as amended: on client close the remainder is discarded without being
\* sent: the close handler writes nothing upstream, and afterwards the frames
\* emitted total N rounded down to a multiple of the frame size, which bounds
\* the bytes sent upstream.
C3_CloseDiscards ==
  /\ [][ClientClosesNow => (frameAcc' = <<>> /\ upSent' = upSent)]_vars
  /\ []((pc = "active" /\ clientRS = "CLOSED")
          => /\ frameAcc = <<>>
             /\ framesOut * FRAME_BYTES = RoundDown(Len(NormBytes))
             /\ Len(UpBytes) <= RoundDown(Len(NormBytes)))

\* C3 witness: the session closed while a partial frame was retained; every
\* emitted frame had been sent and the partial frame was not
C3_Witness ==
  /\ pc = "active" /\ clientRS = "CLOSED"
  /\ Len(NormBytes) % FRAME_BYTES # 0
  /\ framesOut >= 1
  /\ Len(UpBytes) = RoundDown(Len(NormBytes))

\* C4: uplink audio is forwarded verbatim and in order: the concatenation of
\* the frames sent upstream is a prefix of the concatenation of the normalized
\* chunks in arrival order.
C4_UplinkPrefix == IsPrefix(UpBytes, NormBytes)

\* C4 witness: three frames sent from two chunks, the first chunk shorter than
\* a frame, so a frame spans both chunks
C4_Witness ==
  /\ Len(normLog) = 2
  /\ Len(normLog[1]) < FRAME_BYTES
  /\ Len(BinData(upSent)) >= 3

\* C5: downlink integrity: a step that sends audio to the client sends the
\* whole downlink buffer as one binary message and empties the buffer, and
\* the audio sent to the client is a prefix of the audio received from
\* upstream.
C5_DownlinkIntegrity ==
  /\ [](IsPrefix(DownBytes, UpInBytes))
  /\ [][BinData(clientOut') # BinData(clientOut)
          => (clientOut' = Append(clientOut, BinMsg(downAcc)) /\ downAcc' = <<>>)]_vars

\* C5 witness: two flushes delivered everything the upstream sent
C5_Witness ==
  /\ Len(BinData(clientOut)) = 2
  /\ DownBytes = UpInBytes

Backpressure == bufferedAmount # 0 /\ bufferedAmount > DOWN_MAX_BUFFERED

\* C6: backpressure hold: while the open client reports more buffered bytes
\* than DOWN_MAX_BUFFERED no step sends audio to the client or shrinks the
\* downlink buffer (a timer fire leaves it unchanged), and every upstream
\* chunk is appended to the buffer.
C6_BackpressureHold ==
  /\ [][(Backpressure /\ clientRS = "OPEN")
          => /\ BinData(clientOut') = BinData(clientOut)
             /\ IsPrefix(downAcc, downAcc')
             /\ (downTimer /\ ~downTimer' /\ upRS' = upRS) => downAcc' = downAcc]_vars
  /\ [][upIn' # upIn => downAcc' = downAcc \o upIn'[Len(upIn')]]_vars
  /\ DOWN_MAX_BUFFERED = 512 * 1024

\* C6 witness: the timer fired under backpressure and two chunks are held
C6_Witness ==
  /\ pc = "active" /\ clientRS = "OPEN" /\ upRS = "OPEN"
  /\ Backpressure
  /\ ~downTimer
  /\ Len(upIn) = 2
  /\ downAcc = UpInBytes
  /\ BinData(clientOut) = <<>>

\* C7 as claimed: after a flush was skipped for backpressure the coalescer
\* polls again on a later timer: whenever audio is held for an open client of
\* a live session, a flush timer is pending.
C7_HeldBufferIsPolled ==
  (pc = "active" /\ clientRS = "OPEN" /\ upRS # "CLOSED" /\ downAcc # <<>>) => downTimer

\* C8 as claimed: when the upstream closes with audio buffered and the client
\* still open, the final flush is unconditional: the buffer is sent to the
\* client whatever its buffered amount.
C8_FinalFlushUnconditional ==
  [][(pc = "active" /\ upRS # "CLOSED" /\ upRS' = "CLOSED"
        /\ clientRS = "OPEN" /\ downAcc # <<>>)
       => clientOut' = Append(clientOut, BinMsg(downAcc))]_vars

\* C9: an upstream connect failure is fatal to the session start: the client
\* is closed with 1011, the keepalive is stopped, the session never becomes
\* active, the upstream is not connected again and nothing is ever forwarded.
C9_ConnectFailureFatal ==
  /\ [][(upRS = "CONNECTING" /\ upRS' = "CLOSED")
          => /\ pc' = "aborted"
             /\ ~pingTimer'
             /\ clientRS = "OPEN" => (clientRS' = "CLOSING" /\ clientCloseCode' = 1011)]_vars
  /\ [][pc = "aborted"
          => /\ pc' = "aborted" /\ upRS' = "CLOSED" /\ ~pingTimer'
             /\ UNCHANGED <<upSent, clientOut, sessionHints, frameAcc, accPcm, downAcc,
                            downTimer, wavFiles, clientCloseCode>>]_vars
  /\ [](pc = "aborted" => (upSent = <<>> /\ clientRS # "OPEN" /\ clientOut = <<>>))

\* C9 witness: the start was aborted with 1011 and the client's messages
\* went nowhere
C9_Witness ==
  /\ pc = "aborted"
  /\ clientCloseCode = 1011
  /\ nClientMsgs >= 2
  /\ clientRS = "CLOSED"

\* C10 as claimed: no upstream connection is open for a session whose client
\* is gone, also when the client left while the upstream connect was pending.
C10_NoOrphanUpstream == clientRS = "CLOSED" => upRS # "OPEN"


\* C11: when the upstream connection of an active session terminates, the
\* gateway stops the keepalive, cancels the flush timer and closes the client
\* with 1011 (the code also used when the upstream connect fails); afterwards
\* no timer of the session is armed and the client is not open.
C11_UpstreamCloseTearsDown ==
  /\ [][(pc = "active" /\ upRS # "CLOSED" /\ upRS' = "CLOSED")
          => /\ ~pingTimer' /\ ~downTimer'
             /\ clientRS' # "OPEN"
             /\ clientRS = "OPEN" => (clientRS' = "CLOSING" /\ clientCloseCode' = 1011)]_vars
  /\ [][(pc = "connecting" /\ pc' = "aborted" /\ clientRS = "OPEN")
          => clientCloseCode' = 1011]_vars
  /\ [](pc = "active" /\ upRS = "CLOSED"
          => ~pingTimer /\ ~downTimer /\ clientRS # "OPEN")

\* C11 witness: the upstream of an active session terminated while audio was
\* on its way down and the client was open; the client is closing with 1011
C11_Witness ==
  /\ pc = "active" /\ upRS = "CLOSED"
  /\ upIn # <<>>
  /\ clientRS = "CLOSING" /\ clientCloseCode = 1011
  /\ ~pingTimer /\ ~downTimer


\* the close events of the two legs of an active session
ClientCloseFires == pc = "active" /\ clientRS # "CLOSED" /\ clientRS' = "CLOSED"
UpstreamCloseFires == pc = "active" /\ upRS # "CLOSED" /\ upRS' = "CLOSED"

\* each teardown side effect takes effect at most once: a closed socket stays
\* closed, the upstream is open only until its close is started, a released
\* keepalive stays released, the close code is set once and at most one
\* recording is written
TeardownAtMostOnce ==
  /\ [][clientRS = "CLOSED" => clientRS' = "CLOSED"]_vars
  /\ [][upRS = "CLOSED" => upRS' = "CLOSED"]_vars
  /\ [][(upRS = "CLOSING" \/ upRS = "ENDING") => upRS' # "OPEN"]_vars
  /\ [][~pingTimer => ~pingTimer']_vars
  /\ [][clientCloseCode # 0 => clientCloseCode' = clientCloseCode]_vars
  /\ [](Len(wavFiles) <= 1)

\* C12 as claimed: under every interleaving of the client-close and the
\* upstream-close event each teardown side effect takes effect at most once,
\* and the event that comes second changes no state of the session.
C12_SecondTriggerChangesNothing ==
  /\ TeardownAtMostOnce
  /\ [][((ClientCloseFires /\ upRS = "CLOSED") \/ (UpstreamCloseFires /\ clientRS = "CLOSED"))
          => UNCHANGED <<pingTimer, downTimer, clientCloseCode, wavFiles, frameAcc, accPcm,
                         downAcc, sessionHints, upSent, clientOut>>]_vars

\* C12 as the code has it: each teardown side effect takes effect at most
\* once under every interleaving; the event that comes second repeats no
\* effect of the first (its stopKeepalive, client.close and upstream.close
\* are no-ops and write nothing to either socket), but it still does the work
\* only its own handler does: a client close after the upstream close writes
\* the recording and drops the remainder, an upstream close after the client
\* close drops the held downlink audio and the flush timer.
C12_TeardownIdempotent ==
  /\ TeardownAtMostOnce
  /\ [][(ClientCloseFires /\ upRS = "CLOSED")
          => /\ UNCHANGED <<upRS, pingTimer, downTimer, clientCloseCode, downAcc, upSent,
                            clientOut, accPcm, sessionHints>>
             /\ frameAcc' = <<>>
             /\ wavFiles' \in {wavFiles, Append(wavFiles, accPcm)}]_vars
  /\ [][(UpstreamCloseFires /\ clientRS = "CLOSED")
          => /\ UNCHANGED <<clientRS, clientCloseCode, wavFiles, frameAcc, accPcm,
                            upSent, clientOut, sessionHints>>
             /\ downAcc' = <<>> /\ ~downTimer' /\ ~pingTimer']_vars

\* C12 witness: both close events of an active session have happened, the
\* upstream one first (the client was closed with 1011), and the client one
\* wrote the one recording
C12_Witness ==
  /\ pc = "active" /\ clientRS = "CLOSED" /\ upRS = "CLOSED"
  /\ clientCloseCode = 1011
  /\ Len(wavFiles) = 1


\* C13: for every upstream connection that was opened, onClose is invoked
\* exactly once, at the moment the connection terminates, whether the peer
\* closed it gracefully, it broke, or the gateway closed it itself; it is
\* not invoked before and not again afterwards.
C13_OnCloseExactlyOnce ==
  /\ [](onCloseCalls = IF pc = "active" /\ upRS = "CLOSED" THEN 1 ELSE 0)
  /\ [][onCloseCalls' # onCloseCalls
          => (UpstreamCloseFires /\ onCloseCalls' = onCloseCalls + 1)]_vars
  /\ [][UpstreamCloseFires => onCloseCalls' = 1]_vars

\* C13 witness: the client left first, its close handler wrote the recording
\* and closed the upstream, and the upstream's termination invoked onClose
C13_Witness ==
  /\ pc = "active" /\ upRS = "CLOSED" /\ onCloseCalls = 1
  /\ clientRS = "CLOSED" /\ clientCloseCode = 0
  /\ wavFiles # <<>>


\* C14 as claimed: a well-formed message the client sends right after its
\* connection opened is processed however long the upstream connect takes;
\* none is lost because it arrived before the session became active.
\* Once the session is active with both sockets open, a well-formed message
\* that arrived during the connect has been acted on: it was forwarded
\* upstream (JSON or frames), is held as remainder or recording, or was
\* acknowledged to the client.
C14_NoMessageLostBeforeActive ==
  (pc = "active" /\ clientRS = "OPEN" /\ upRS = "OPEN" /\ Has(clientLog, "unheard"))
    => (upSent # <<>> \/ clientOut # <<>> \/ frameAcc # <<>> \/ accPcm # <<>>)


\* C15: at every keepalive tick the gateway either pings the client and marks
\* it unanswered, or, when no pong came since the previous tick's ping,
\* terminates the client connection and stops the keepalive; a pong marks the
\* client alive, so a client that answers every ping before the next tick is
\* never terminated by a tick.
C15_KeepaliveDeadPeer ==
  /\ [][PingTick => IF clientAlive
                    THEN ~clientAlive' /\ pingTimer' /\ clientRS' = clientRS
                    ELSE ~pingTimer' /\ clientRS' \notin {"OPEN", "CLOSING"}]_vars
  /\ [][ClientPong => clientAlive']_vars
  /\ [][(clientAlive' # clientAlive) => (PingTick \/ ClientPong)]_vars
  /\ [](pingTimer => ENABLED PingTick)

\* C15 witness: during the upstream connect the client left a ping
\* unanswered and the next tick terminated it and stopped the keepalive
C15_Witness ==
  /\ pc = "connecting"
  /\ ~pingTimer /\ ~clientAlive
  /\ clientRS = "ENDING"


\* the session is active and both connections are open
BothOpen == pc = "active" /\ clientRS = "OPEN" /\ upRS = "OPEN"

\* C16: a client text frame that is not valid JSON is dropped in an active
\* session: nothing goes upstream or to the client, hints, remainder,
\* recording and downlink buffer stay as they are, and the session stays
\* active with both connections open.
C16_InvalidJsonDropped ==
  [][(BothOpen /\ onClientText(InvalidText))
      => /\ UNCHANGED <<upSent, clientOut, sessionHints, frameAcc, accPcm, downAcc, downTimer,
                        wavFiles, normLog, framesOut, pingTimer, clientCloseCode>>
         /\ BothOpen']_vars

\* C16 witness: an active session forwarded audio, then dropped a text frame
\* that was not JSON, and is still up with what it held before
C16_Witness ==
  /\ BothOpen
  /\ clientLog = <<"audio", "badjson">>
  /\ accPcm # <<>>


\* the client's next message is handled with the given outcome
ClientMsgHandled(outcome) ==
  /\ nClientMsgs' = nClientMsgs + 1
  /\ clientLog' = Append(clientLog, outcome)

\* C17: an audio chunk (binary or legacy base64) whose normalization fails is
\* dropped without tearing the session down: nothing is sent upstream for it,
\* remainder and recording are unchanged, the session stays active with both
\* connections open, and an audio chunk that arrives after a failed one is
\* still normalized, recorded and pushed through the aligner.
C17_NormalizeFailureDropped ==
  /\ [][(BothOpen /\ ClientMsgHandled("normfail"))
          => /\ UNCHANGED <<upSent, frameAcc, accPcm, normLog, framesOut, sessionHints,
                            clientOut, wavFiles, pingTimer, clientCloseCode>>
             /\ BothOpen']_vars
  /\ [][(pc = "active" /\ Has(clientLog, "normfail") /\ ClientMsgHandled("audio"))
          => /\ Len(normLog') = Len(normLog) + 1
             /\ accPcm' = accPcm \o normLog'[Len(normLog')]
             /\ framesOut' * FRAME_BYTES + Len(frameAcc')
                  = framesOut * FRAME_BYTES + Len(frameAcc)
                    + Len(normLog'[Len(normLog')])]_vars

\* C17 witness: the session held a remainder, dropped a chunk that failed to
\* normalize, and the next chunk went through and completed a frame
C17_Witness ==
  /\ BothOpen
  /\ Len(clientLog) = 3 /\ clientLog[1] = "audio" /\ clientLog[2] = "normfail"
  /\ clientLog[3] = "audio"
  /\ Len(normLog) = 2
  /\ framesOut >= 1


\* the audio_meta messages the client may send next
NextMetas ==
  { m \in ClientTexts(nClientMsgs + 1) : m.valid /\ m.obj.type = "audio_meta" }

\* C18: in an active session an audio_meta message is handled in one step:
\* the session hints take the message's fields (encoding in lower case), one
\* ack carrying the updated hints is sent to the client, nothing is forwarded
\* upstream and no audio state changes; a binary chunk that follows is
\* normalized with the hints of the session at that moment.
C18_AudioMetaAck ==
  /\ [][(BothOpen /\ ClientMsgHandled("meta"))
          => \E m \in NextMetas :
               /\ sessionHints'.encoding = ToLowerCase(m.obj.encoding)
               /\ sessionHints'.sample_rate = m.obj.sample_rate
               /\ sessionHints'.channels = sessionHints.channels
               /\ clientOut' = Append(clientOut,
                                      JsonMsg([type |-> "ack", of |-> "audio_meta",
                                               sessionHints |-> sessionHints']))
               /\ UNCHANGED <<upSent, frameAcc, accPcm, normLog, framesOut>>]_vars
  /\ [][(pc = "active" /\ ClientMsgHandled("audio"))
          => \A p \in ClientPayloads(nClientMsgs + 1) :
               onClientBinary(p)
                 => normLog' = Append(normLog,
                                      normalizeToStandardPcm(p, sessionHints).data)]_vars
  /\ [](\A i \in 1..Len(upSent) :
          upSent[i].kind = "json" => upSent[i].obj.type # "audio_meta")

\* C18 witness: an audio_meta switched the session to mu-law at 8 kHz, was
\* acknowledged, and the binary chunk after it was decoded as mu-law (one
\* byte per sample, resampled to twice as many 16-bit samples)
C18_Witness ==
  /\ pc = "active"
  /\ clientLog = <<"meta", "audio">>
  /\ sessionHints.encoding = "mulaw" /\ sessionHints.sample_rate = 8000
  /\ Len(clientOut) = 1 /\ clientOut[1].kind = "json" /\ clientOut[1].obj.type = "ack"
  /\ clientOut[1].obj.sessionHints = sessionHints
  /\ upSent # <<>>
  /\ \A i \in 1..Len(upSent) : upSent[i].kind = "bin"
  /\ Len(normLog[1]) \in {4 * (FRAME_BYTES - 2), 4 * (2 * FRAME_BYTES + 2)}


\* the JSON objects of a message log, in order
RECURSIVE JsonObjs(_)
JsonObjs(log) ==
  IF log = <<>> THEN <<>>
  ELSE IF Head(log).kind = "json" THEN <<Head(log).obj>> \o JsonObjs(Tail(log))
  ELSE JsonObjs(Tail(log))

RECURSIVE Count(_, _)
Count(log, x) ==
  IF log = <<>> THEN 0
  ELSE (IF Head(log) = x THEN 1 ELSE 0) + Count(Tail(log), x)

\* the upstream events among the JSON messages written to the client
UpEventsOut == SelectSeq(JsonObjs(clientOut), LAMBDA o : o.type = "chat_message")

\* C19: in an active session with both connections open, a client text that
\* parses as JSON and is neither audio_meta nor legacy audio is written
\* upstream once, as it was parsed, behind everything written before, and
\* changes nothing else; an upstream JSON event is written to the client
\* once, behind everything written before. No such message appears more
\* often than it arrived, and upstream events reach the client in the order
\* they came.
C19_ControlPassthrough ==
  /\ [][(BothOpen /\ ClientMsgHandled("json"))
          => \E m \in ClientTexts(nClientMsgs + 1) :
               /\ m.valid /\ m.obj.type # "audio_meta" /\ LegacyB64(m.obj) = <<>>
               /\ upSent' = Append(upSent, JsonMsg(m.obj))
               /\ UNCHANGED <<clientOut, sessionHints, frameAcc, accPcm, normLog,
                              framesOut>>]_vars
  /\ [][(BothOpen /\ UpstreamJson)
          => \E obj \in UpstreamEvents(nUpMsgs + 1) :
               clientOut' = Append(clientOut, JsonMsg(obj))]_vars
  /\ [](Len(JsonObjs(upSent)) <= Count(clientLog, "json"))
  /\ [](\A i \in 1..Len(JsonObjs(upSent)) :
          JsonObjs(upSent)[i].type \notin {"audio_meta", "voicechunk"})
  /\ [](\A i, j \in 1..Len(UpEventsOut) : i < j => UpEventsOut[i].seq < UpEventsOut[j].seq)

\* C19 witness: control messages went upstream and upstream events went to
\* the client, three in all and two of them in the same direction, each
\* once and in order
C19_Witness ==
  \/ /\ Count(clientLog, "json") = 2 /\ Len(JsonObjs(upSent)) = 2
     /\ Len(UpEventsOut) = 1
  \/ /\ Count(clientLog, "json") = 1 /\ Len(JsonObjs(upSent)) = 1
     /\ Len(UpEventsOut) = 2


\* the legacy message that carries the bytes as base64 and no format field
LegacyOf(bytes) == [EmptyObj EXCEPT !.type = "voicechunk", !.chunk_data = B64Encode(bytes)]

\* what handling LegacyOf(bytes) in the current state leaves behind
LegacyEffect(bytes) ==
  LET obj == LegacyOf(bytes)
      n == normalizeToStandardPcm(Payload(B64Decode(LegacyB64(obj)), FALSE),
                                  LegacyHints(obj, sessionHints))
      d == drainFrames(frameAcc, n.data)
  IN IF n.ok
     THEN [upSent |-> sendBinaryAll(upRS, upSent, d.chunks), frameAcc |-> d.frameAcc,
           accPcm |-> record(accPcm, n.data)]
     ELSE [upSent |-> upSent, frameAcc |-> frameAcc, accPcm |-> accPcm]

\* C20 as claimed: a binary message with payload P has exactly the effect on
\* the frames sent upstream, the remainder and the recording that the legacy
\* JSON message carrying P as base64, with no format fields, has in the same
\* state; the legacy message itself is never forwarded as JSON.
C20_LegacyEquivalence ==
  /\ [][\A p \in ClientPayloads(nClientMsgs + 1) :
          (pc = "active" /\ onClientBinary(p))
            => LET e == LegacyEffect(p.bytes)
               IN upSent' = e.upSent /\ frameAcc' = e.frameAcc /\ accPcm' = e.accPcm]_vars
  /\ [](\A i \in 1..Len(JsonObjs(upSent)) : JsonObjs(upSent)[i].chunk_data = <<>>)

\* ========================================================================
\* A server with several sessions
\* ========================================================================
\* wss.on("connection") runs once per accepted client; the closure of each run
\* holds its session. Sockets are kept apart from the closures that refer to
\* them, so that a reference to the wrong socket shows. The variables of the
\* single session above rest in this specification.
MaxSessions == 2
MaxServerMsgs == 2

gatewayVars == <<pc, clientRS, clientCloseCode, bufferedAmount, pingTimer, clientAlive,
                 upRS, sessionHints, frameAcc, accPcm, downAcc, downTimer, wavFiles,
                 upSent, clientOut, normLog, framesOut, upIn, nClientMsgs, nUpMsgs,
                 onCloseCalls, clientLog, flushTimeouts>>

Handlers == sessions.handlers     \* the closures of the connection handler
Upstreams == sessions.upstreams   \* the sockets made by new ModelApiService(...).connect()
Clients == sessions.clients       \* the sockets accepted by the server

ServerMsgs ==
  LET RECURSIVE Said(_)
      Said(socks) == IF socks = <<>> THEN 0
                     ELSE Len(Head(socks).said) + Said(Tail(socks))
  IN Said(Upstreams) + Said(Clients)

\* Variant in which `upstream` is a variable of the module, assigned by every
\* connection: each closure sees the upstream client made last
OwnUpstream_Shared(h) == Len(Upstreams)

\* `upstream` as the closure of handler h sees it: the const made by that run
OwnUpstream(h) == Handlers[h].upstream

\* `client` as the closure of handler h sees it: the argument of that run
OwnClient(h) == Handlers[h].client

\* what the k-th message of a socket carries: the socket shows in every byte
ClientAudio(c, k) == MkBytes(16 * c + k, FRAME_BYTES + 2)
ClientControl(c, k) == [type |-> "input_audio_end", seq |-> 16 * c + k]
UpstreamAudio(u, k) == MkBytes(128 + 16 * u + k, 3)
UpstreamEvent(u, k) == [type |-> "chat_message", seq |-> 128 + 16 * u + k]

ServerInit ==
  /\ GatewayInit
  /\ call = NoCall
  /\ sessions = [handlers |-> <<>>, upstreams |-> <<>>, clients |-> <<>>]

\* wss.on("connection"): a client is accepted, the handler makes its upstream
\* client and awaits upstream.connect()
Accept ==
  /\ Len(Handlers) < MaxSessions
  /\ sessions' =
       [handlers |-> Append(Handlers,
                       [client |-> Len(Clients) + 1, upstream |-> Len(Upstreams) + 1,
                        pc |-> "connecting", frameAcc |-> <<>>, downAcc |-> <<>>,
                        downTimer |-> FALSE]),
        upstreams |-> Append(Upstreams,
                       [rs |-> "CONNECTING", sent |-> <<>>, said |-> <<>>, cb |-> 0]),
        clients |-> Append(Clients,
                       [rs |-> "OPEN", got |-> <<>>, said |-> <<>>, listener |-> 0])]
  /\ UNCHANGED <<gatewayVars, call>>

\* upstream.connect() resolves in handler h: the callbacks of its upstream
\* client and the listeners of its client are set, each closing over h
SessionUpstreamOpen(h) ==
  LET u == OwnUpstream(h)
      c == OwnClient(h)
  IN /\ Handlers[h].pc = "connecting"
     /\ Upstreams[u].rs = "CONNECTING"
     /\ sessions' =
          [handlers |-> [Handlers EXCEPT ![h].pc = "active"],
           upstreams |-> [Upstreams EXCEPT ![u].rs = "OPEN", ![u].cb = h],
           clients |-> [Clients EXCEPT ![c].listener = h]]
     /\ UNCHANGED <<gatewayVars, call>>

\* client.on("message") of client socket c, a binary message at the default
\* hints: normalize, drainFrames, upstream.sendBinary per frame
SessionClientBinary(c) ==
  LET h == Clients[c].listener
      bytes == ClientAudio(c, Len(Clients[c].said) + 1)
      normalized == normalizeToStandardPcm(Payload(bytes, FALSE), sessionHints)
      d == drainFrames(Handlers[h].frameAcc, normalized.data)
      u == OwnUpstream(h)
  IN /\ ServerMsgs < MaxServerMsgs
     /\ Clients[c].rs = "OPEN"
     /\ IF h = 0
        THEN sessions' = [sessions EXCEPT !.clients[c].said = Append(@, BinMsg(bytes))]
        ELSE sessions' =
               [handlers |-> [Handlers EXCEPT ![h].frameAcc = d.frameAcc],
                upstreams |-> [Upstreams EXCEPT
                                 ![u].sent = sendBinaryAll(Upstreams[u].rs, @, d.chunks)],
                clients |-> [Clients EXCEPT ![c].said = Append(@, BinMsg(bytes))]]
     /\ UNCHANGED <<gatewayVars, call>>

\* client.on("message") of client socket c, a control message:
\* upstream.sendJson(obj)
SessionClientText(c) ==
  LET h == Clients[c].listener
      obj == ClientControl(c, Len(Clients[c].said) + 1)
      u == OwnUpstream(h)
  IN /\ ServerMsgs < MaxServerMsgs
     /\ Clients[c].rs = "OPEN"
     /\ IF h = 0
        THEN sessions' = [sessions EXCEPT !.clients[c].said = Append(@, JsonMsg(obj))]
        ELSE sessions' =
               [sessions EXCEPT
                  !.upstreams[u].sent = sendJson(Upstreams[u].rs, @, obj),
                  !.clients[c].said = Append(@, JsonMsg(obj))]
     /\ UNCHANGED <<gatewayVars, call>>

\* upstream socket u delivers a binary message: onBinary of the handler that
\* set the callback appends to its downAcc and schedules its flush
SessionUpstreamBinary(u) ==
  LET h == Upstreams[u].cb
      bytes == UpstreamAudio(u, Len(Upstreams[u].said) + 1)
  IN /\ ServerMsgs < MaxServerMsgs
     /\ Upstreams[u].rs = "OPEN"
     /\ IF h = 0
        THEN sessions' = [sessions EXCEPT !.upstreams[u].said = Append(@, BinMsg(bytes))]
        ELSE sessions' =
               [sessions EXCEPT
                  !.handlers[h].downAcc = @ \o bytes,
                  !.handlers[h].downTimer = TRUE,
                  !.upstreams[u].said = Append(@, BinMsg(bytes))]
     /\ UNCHANGED <<gatewayVars, call>>

\* upstream socket u delivers a JSON event: onJson sends it to the client
SessionUpstreamJson(u) ==
  LET h == Upstreams[u].cb
      obj == UpstreamEvent(u, Len(Upstreams[u].said) + 1)
      c == OwnClient(h)
  IN /\ ServerMsgs < MaxServerMsgs
     /\ Upstreams[u].rs = "OPEN"
     /\ IF h = 0
        THEN sessions' = [sessions EXCEPT !.upstreams[u].said = Append(@, JsonMsg(obj))]
        ELSE sessions' =
               [sessions EXCEPT
                  !.clients[c].got = ClientSend(Clients[c].rs, @, JsonMsg(obj)),
                  !.upstreams[u].said = Append(@, JsonMsg(obj))]
     /\ UNCHANGED <<gatewayVars, call>>

\* the flush timeout of handler h fires: flushDownlink()
SessionFlush(h) ==
  LET c == OwnClient(h)
      f == flushDownlink(Handlers[h].downAcc, Clients[c].rs, 0)
  IN /\ Handlers[h].downTimer
     /\ sessions' =
          [sessions EXCEPT
             !.handlers[h].downAcc = f.downAcc,
             !.handlers[h].downTimer = FALSE,
             !.clients[c].got = @ \o f.out]
     /\ UNCHANGED <<gatewayVars, call>>

\* the close event of client socket c: the listener of its handler drops the
\* frame remainder and closes the upstream of that handler
SessionClientClose(c) ==
  LET h == Clients[c].listener
      u == OwnUpstream(h)
  IN /\ Clients[c].rs # "CLOSED"
     /\ IF h = 0
        THEN sessions' = [sessions EXCEPT !.clients[c].rs = "CLOSED"]
        ELSE sessions' =
               [sessions EXCEPT
                  !.handlers[h].frameAcc = <<>>,
                  !.upstreams[u].rs = UpstreamClose(Upstreams[u].rs),
                  !.clients[c].rs = "CLOSED"]
     /\ UNCHANGED <<gatewayVars, call>>

\* the close event of upstream socket u: onClose of the handler that set the
\* callback flushes and closes the client of that handler
SessionUpstreamClose(u) ==
  LET h == Upstreams[u].cb
      c == OwnClient(h)
      f == flushDownlink(Handlers[h].downAcc, Clients[c].rs, 0)
  IN /\ Upstreams[u].rs \in {"OPEN", "CLOSING"}
     /\ IF h = 0
        THEN sessions' = [sessions EXCEPT !.upstreams[u].rs = "CLOSED"]
        ELSE sessions' =
               [sessions EXCEPT
                  !.handlers[h].downAcc = f.downAcc,
                  !.handlers[h].downTimer = FALSE,
                  !.upstreams[u].rs = "CLOSED",
                  !.clients[c].got = @ \o f.out,
                  !.clients[c].rs = ClientCloseRS(@)]
     /\ UNCHANGED <<gatewayVars, call>>

ServerNext ==
  \/ Accept
  \/ \E h \in 1..Len(Handlers) : SessionUpstreamOpen(h)
  \/ \E c \in 1..Len(Clients) : SessionClientBinary(c)
  \/ \E c \in 1..Len(Clients) : SessionClientText(c)
  \/ \E u \in 1..Len(Upstreams) : SessionUpstreamBinary(u)
  \/ \E u \in 1..Len(Upstreams) : SessionUpstreamJson(u)
  \/ \E h \in 1..Len(Handlers) : SessionFlush(h)
  \/ \E c \in 1..Len(Clients) : SessionClientClose(c)
  \/ \E u \in 1..Len(Upstreams) : SessionUpstreamClose(u)

ServerSpec == ServerInit /\ [][ServerNext]_vars

JsonOf(log) == { log[i].obj : i \in { j \in 1..Len(log) : log[j].kind = "json" } }

\* C21: with several sessions running at once, every accepted client has one
\* upstream connection made for it alone; what is written to an upstream
\* socket comes only from the client of the session that owns it (the audio
\* of its messages from some message on, in order), and what is written to a
\* client comes only from the upstream of its own session.
C21_SessionIsolation ==
  /\ Len(Upstreams) = Len(Handlers) /\ Len(Clients) = Len(Handlers)
  /\ \A g, h \in 1..Len(Handlers) :
       g # h => OwnUpstream(g) # OwnUpstream(h) /\ OwnClient(g) # OwnClient(h)
  /\ \A h \in 1..Len(Handlers) :
       LET u == Upstreams[Handlers[h].upstream]
           c == Clients[Handlers[h].client]
       IN /\ \E k \in 0..Len(BinData(c.said)) :
               IsPrefix(Concat(BinData(u.sent)),
                        Concat(SubSeq(BinData(c.said), k + 1, Len(BinData(c.said)))))
          /\ JsonOf(u.sent) \subseteq JsonOf(c.said)
          /\ IsPrefix(Concat(BinData(c.got)), Concat(BinData(u.said)))
          /\ JsonOf(c.got) \subseteq JsonOf(u.said)

\* two sessions at once, both open: audio of the first client written to the
\* first upstream, an event of the second upstream written to the second client
C21_Witness ==
  /\ Len(Handlers) = 2
  /\ Handlers[1].pc = "active" /\ Handlers[2].pc = "active"
  /\ BinData(Upstreams[1].sent) # <<>>
  /\ JsonOf(Clients[2].got) # {}
  /\ Clients[1].rs = "OPEN" /\ Clients[2].rs = "OPEN"

\* ========================================================================
\* Teardown under fair scheduling
\* ========================================================================
\* What the runtime guarantees of the single session: upstream.connect()
\* settles, an armed timer fires, and a socket whose closing has begun (close() or terminate() was called, or
\* the peer's close frame arrived) emits its close event. Nothing obliges a
\* peer to send or to close.
FairSpec ==
  /\ Spec
  /\ WF_vars(UpstreamOpen \/ UpstreamConnectError)
  /\ WF_vars(FlushTimerFire)
  /\ WF_vars(PingTick)
  /\ WF_vars(clientRS # "OPEN" /\ ClientCloseEvent)
  /\ WF_vars(upRS # "OPEN" /\ UpstreamCloseEvent)

Released ==
  /\ clientRS = "CLOSED" /\ upRS = "CLOSED"
  /\ ~pingTimer /\ ~downTimer
  /\ frameAcc = <<>> /\ downAcc = <<>>

\* C22: the closed state is final and releases everything: once the client
\* or the upstream connection has closed, eventually both are closed, neither
\* the keepalive timer nor the flush timer is armed, the frame remainder and
\* the downlink buffer are empty, and it stays so from then on.
C22_ClosedReleasesAll ==
  (clientRS = "CLOSED" \/ upRS = "CLOSED") ~> []Released

C24_WriteFailureNonFatal ==
  [][ClientCloseFires /\ ENABLE_RECORD /\ accPcm # <<>> =>
       /\ wavFiles' = wavFiles \/ wavFiles' = Append(wavFiles, accPcm)
       /\ frameAcc' = <<>>
       /\ upRS' = UpstreamClose(upRS)
       /\ ~pingTimer']_vars

\* the write failed in a session that held a frame remainder and an open
\* upstream: nothing was written, the remainder is gone, the upstream closes
C24_Witness ==
  /\ pc = "active" /\ clientRS = "CLOSED"
  /\ normLog # <<>> /\ Len(NormBytes) % FRAME_BYTES # 0
  /\ wavFiles = <<>>
  /\ frameAcc = <<>>
  /\ upRS = "CLOSING"

\* ========================================================================
\* A client that declares its audio format
\* ========================================================================
\* The single session with a client that sends audio_meta messages only: the
\* fields are whatever JSON the client chose
MetaTexts ==
  { Text([EmptyObj EXCEPT !.type = "audio_meta", !.encoding = "WAV",
                          !.sample_rate = 32000, !.channels = 2]),
    Text([EmptyObj EXCEPT !.type = "audio_meta", !.sampleRate = 8000]),
    Text([EmptyObj EXCEPT !.type = "audio_meta", !.encoding = "opus"]),
    Text([EmptyObj EXCEPT !.type = "audio_meta", !.sample_rate = -8000]),
    Text([EmptyObj EXCEPT !.type = "audio_meta", !.channels = 0]) }

ClientMeta ==
  /\ clientRS \in {"OPEN", "CLOSING"}
  /\ nClientMsgs + nUpMsgs < MaxMsgs
  /\ \E msg \in MetaTexts : onClientText(msg)

MetaNext ==
  \/ UpstreamOpen
  \/ ClientMeta

MetaSpec == Init /\ [][MetaNext]_vars

\* C25: whatever audio_meta messages the client has sent, the hints of the
\* session are well-formed: the encoding is one of pcm16le, wav, mulaw, the
\* sample rate is a positive integer and the channel count is a positive
\* integer.
C25_HintsWellFormed ==
  /\ sessionHints.encoding \in {"pcm16le", "wav", "mulaw"}
  /\ sessionHints.sample_rate \in Nat /\ sessionHints.sample_rate > 0
  /\ sessionHints.channels \in Nat /\ sessionHints.channels > 0

\* ========================================================================
\* The normalizer and its helpers, called on their own
\* ========================================================================
\* One call per behaviour: the initial state holds the arguments, the step
\* applies the function. The variables of the session rest.
MaxFrames == 3    \* sample frames of a payload

SourceRates == {8000, 16000, 32000}
SampleValues == {-32768, -1, 0, 1, 32767}
Int16 == -32768..32767

SeqsUpTo(S, n) == UNION { [1..k -> S] : k \in 0..n }

LE16(n) == <<n % 256, n \div 256>>
LE32(n) == <<n % 256, (n \div 256) % 256, (n \div 65536) % 256, n \div 16777216>>

\* A RIFF/WAVE file as writeWavFile lays it out, with the fields of the fmt
\* chunk free and either chunk optional
MkWav(w, data) ==
  LET fmtChunk == TagFmt \o LE32(16) \o LE16(w.fmt) \o LE16(w.ch) \o LE32(w.sr)
                    \o LE32(w.sr * w.ch * 2) \o LE16(w.ch * 2) \o LE16(w.bps)
      dataChunk == TagData \o LE32(Len(data)) \o data
      chunks == (IF w.hasFmt THEN fmtChunk ELSE <<>>)
                  \o (IF w.hasData THEN dataChunk ELSE <<>>)
  IN TagRIFF \o LE32(4 + Len(chunks)) \o TagWAVE \o chunks

NoWav == [hasFmt |-> FALSE, hasData |-> FALSE, fmt |-> 0, ch |-> 0, sr |-> 0, bps |-> 0]

Hints(enc, sr, ch) == [encoding |-> enc, sample_rate |-> sr, channels |-> ch]

Call(fn, args) == [fn |-> fn, args |-> args, done |-> FALSE, result |-> <<>>]

\* arguments of normalizeToStandardPcm, with what the caller knows of the
\* payload: its sample frames, its channels and its rate
NormalizeArgs(payload, hints, kind, frames, channels, rate, wav) ==
  [payload |-> payload, hints |-> hints, kind |-> kind, frames |-> frames,
   channels |-> channels, rate |-> rate, wav |-> wav]

\* raw PCM16LE of f sample frames with the declared channels and rate
PcmCalls ==
  { Call("normalizeToStandardPcm",
         NormalizeArgs(Payload(MkBytes(f + 7 * c, 2 * c * f), FALSE),
                       Hints(enc, IF r = TARGET_SR THEN 0 ELSE r,
                                  IF c = 1 THEN Nullish ELSE c),
                       "pcm16le", f, c, r, NoWav)) :
      f \in 0..MaxFrames, c \in {1, 2, 4}, r \in SourceRates,
      enc \in {"", "PCM16LE"} }

\* mu-law of f sample frames (one byte per sample) with the declared channels
\* and rate; an absent rate means 8000
MulawCalls ==
  { Call("normalizeToStandardPcm",
         NormalizeArgs(Payload(MkBytes(f + 7 * c, c * f), FALSE),
                       Hints(enc, IF r = 8000 /\ c = 1 THEN 0 ELSE r,
                                  IF c = 1 THEN Nullish ELSE c),
                       "mulaw", f, c, r, NoWav)) :
      f \in 0..MaxFrames \cup {FRAME_BYTES \div 2}, c \in {1, 2}, r \in SourceRates,
      enc \in {"mulaw", "g711"} }

WavSpecs ==
  { [hasFmt |-> TRUE, hasData |-> d, fmt |-> t, ch |-> c, sr |-> r, bps |-> b] :
      d \in BOOLEAN, t \in {1, 3}, c \in {1, 2}, r \in SourceRates, b \in {8, 16} }
  \cup { [hasFmt |-> FALSE, hasData |-> d, fmt |-> 1, ch |-> TARGET_CH, sr |-> TARGET_SR,
          bps |-> 16] : d \in BOOLEAN }

\* WAV files of f sample frames; the hints name the container or not, and
\* declare a rate and channels of their own
WavCalls ==
  { Call("normalizeToStandardPcm",
         NormalizeArgs(Payload(MkWav(w, MkBytes(f + 7 * w.ch, 2 * w.ch * f)), FALSE),
                       h, "wav", f, w.ch, w.sr, w)) :
      f \in {1, MaxFrames}, w \in WavSpecs,
      h \in { Hints(enc, sr, ch) :
                enc \in {"wav", "pcm16le", "mulaw"}, sr \in {0, 32000}, ch \in {Nullish, 2} } }

ResampleCalls ==
  { Call("resamplePcm16Mono", [samples |-> x, fromSr |-> a, toSr |-> b]) :
      x \in SeqsUpTo(SampleValues, MaxFrames), a \in SourceRates, b \in SourceRates }

DownmixCalls ==
  { Call("downmixStereoToMono", [samples |-> x]) :
      x \in SeqsUpTo(SampleValues, MaxFrames + 1) \cup { <<v, v>> : v \in Int16 } }

NormInit ==
  /\ GatewayInit
  /\ sessions = NoSessions
  /\ call \in PcmCalls \cup MulawCalls \cup WavCalls \cup ResampleCalls \cup DownmixCalls

CallNormalize ==
  /\ call.fn = "normalizeToStandardPcm" /\ ~call.done
  /\ call' = [call EXCEPT !.done = TRUE,
                          !.result = normalizeToStandardPcm(call.args.payload,
                                                            call.args.hints)]
  /\ UNCHANGED <<gatewayVars, sessions>>

CallResample ==
  /\ call.fn = "resamplePcm16Mono" /\ ~call.done
  /\ call' = [call EXCEPT !.done = TRUE,
                          !.result = resamplePcm16Mono(call.args.samples,
                                                       call.args.fromSr, call.args.toSr)]
  /\ UNCHANGED <<gatewayVars, sessions>>

CallDownmix ==
  /\ call.fn = "downmixStereoToMono" /\ ~call.done
  /\ call' = [call EXCEPT !.done = TRUE,
                          !.result = downmixStereoToMono(call.args.samples)]
  /\ UNCHANGED <<gatewayVars, sessions>>

NormNext ==
  \/ CallNormalize
  \/ CallResample
  \/ CallDownmix

NormSpec == NormInit /\ [][NormNext]_vars

Returned(fn) == call.fn = fn /\ call.done

\* f sample frames at rate r, at the canonical rate
ScaledFrames(f, r) == IF r = TARGET_SR THEN f ELSE Max2(1, (f * TARGET_SR) \div r)

\* C26: for each supported encoding and every declared channel count and
\* sample rate, the normalizer returns a decode failure or mono PCM16 at the
\* canonical rate: as many samples as the input has sample frames, scaled by
\* target rate / source rate, never the interleaved count of all channels.
C26_MonoAtCanonicalRate ==
  Returned("normalizeToStandardPcm") /\ call.result.ok =>
    Len(call.result.data) = 2 * ScaledFrames(call.args.frames, call.args.rate)

\* the source rate of a mu-law payload: the hint, 8000 when absent
MulawRate(hints) == IF hints.sample_rate # 0 THEN hints.sample_rate ELSE 8000

MulawReturned == Returned("normalizeToStandardPcm") /\ call.args.kind = "mulaw"

\* the frames of the example: 2 s of mu-law at 8000 Hz, 20 ms frames
TwoSecondExample ==
  LET bytes == 2 * Max2(1, (16000 * TARGET_SR) \div 8000)
      frame == FrameBytesOf(TARGET_SR, 20, TARGET_CH)
  IN bytes = 64000 /\ frame = 640 /\ bytes \div frame = 100 /\ bytes % frame = 0

\* a normalized chunk pushed into an empty aligner leaves as whole frames,
\* the rest stays
FramesOf(data) ==
  LET d == drainFrames(<<>>, data)
  IN /\ Len(d.chunks) = Len(data) \div FRAME_BYTES
     /\ \A i \in 1..Len(d.chunks) : Len(d.chunks[i]) = FRAME_BYTES
     /\ Len(d.frameAcc) = Len(data) % FRAME_BYTES

\* C27 as stated: a mu-law payload of n bytes at source rate r normalizes to
\* max(1, floor(n * 16000 / r)) samples of 2 bytes, for every n and r; the
\* 2-second chunk at 8000 Hz gives 64000 bytes, 100 frames of 640 bytes and
\* no remainder.
C27_MulawLengthAsStated ==
  /\ TwoSecondExample
  /\ MulawReturned =>
       /\ call.result.ok
       /\ Len(call.result.data) =
            2 * Max2(1, (Len(call.args.payload.bytes) * TARGET_SR)
                          \div MulawRate(call.args.hints))
       /\ FramesOf(call.result.data)

\* C27: a mu-law payload of n bytes at source rate r normalizes to n samples
\* when r is the canonical rate (none for an empty payload) and to
\* max(1, floor(n * 16000 / r)) samples otherwise, 2 bytes each; whole frames
\* leave the aligner, and the 2-second chunk at 8000 Hz gives 64000 bytes,
\* 100 frames of 640 bytes and no remainder.
C27_MulawLength ==
  /\ TwoSecondExample
  /\ MulawReturned =>
       /\ call.result.ok
       /\ Len(call.result.data) =
            2 * ScaledFrames(Len(call.args.payload.bytes), MulawRate(call.args.hints))
       /\ FramesOf(call.result.data)

\* a chunk at 8000 Hz that fills whole frames: half a frame of mu-law bytes
\* per frame, nothing left over
C27_Witness ==
  /\ MulawReturned
  /\ call.args.hints.sample_rate = 0
  /\ Len(call.args.payload.bytes) = FRAME_BYTES \div 2
  /\ Len(drainFrames(<<>>, call.result.data).chunks) = 2
  /\ drainFrames(<<>>, call.result.data).frameAcc = <<>>

\* C28: resampling from a rate to the same rate returns the input exactly,
\* for every input, the empty one included, and every rate.
C28_ResampleIdentity ==
  Returned("resamplePcm16Mono") /\ call.args.fromSr = call.args.toSr =>
    call.result = call.args.samples

\* equal rates other than the canonical one, on the empty input and on an
\* input with both extremes
C28_WitnessEmpty ==
  /\ Returned("resamplePcm16Mono")
  /\ call.args.fromSr = 8000 /\ call.args.toSr = 8000
  /\ call.args.samples = <<>>

C28_Witness ==
  /\ Returned("resamplePcm16Mono")
  /\ call.args.fromSr = 8000 /\ call.args.toSr = 8000
  /\ call.args.samples = <<-32768, 32767, -1>>

\* C29: the downmix of an interleaved stereo signal whose left and right
\* samples are equal in every pair is exactly that mono signal, for every
\* 16-bit value, negative ones and the extremes -32768 and 32767 included.
C29_DownmixIdentity ==
  LET x == call.args.samples
  IN (/\ Returned("downmixStereoToMono")
      /\ Len(x) % 2 = 0
      /\ \A j \in 1..(Len(x) \div 2) : x[2 * j - 1] = x[2 * j])
     => call.result = [j \in 1..(Len(x) \div 2) |-> x[2 * j]]

\* two pairs, one at each extreme
C29_Witness ==
  /\ Returned("downmixStereoToMono")
  /\ call.args.samples = <<-32768, -32768, 32767, 32767>>
  /\ call.result = <<-32768, 32767>>

WavReturned == Returned("normalizeToStandardPcm") /\ call.args.kind = "wav"

\* C30: when the hints say wav or the payload starts with the RIFF/WAVE
\* magic, the sample rate and the channel count are those of the container's
\* fmt chunk, never those of the hints, and the result is a decode failure
\* whenever the fmt chunk declares anything but 16-bit linear PCM or no data
\* chunk is present.
C30_WavFromContainer ==
  WavReturned =>
    LET w == call.args.wav
        a == call.args
    IN /\ w.hasFmt /\ (w.fmt # 1 \/ w.bps # 16) => call.result = Null
       /\ ~w.hasData => call.result = Null
       /\ w.hasData /\ (w.hasFmt => w.fmt = 1 /\ w.bps = 16) =>
            /\ call.result.ok
            /\ Len(call.result.data) = 2 * ScaledFrames(a.frames, w.sr)
       /\ \A sr \in {0} \cup SourceRates, ch \in {Nullish, 1, 2} :
            normalizeToStandardPcm(a.payload, Hints(a.hints.encoding, sr, ch))
              = call.result

\* a mono 8000 Hz file, sniffed by its magic under hints that say raw stereo
\* PCM at 32000 Hz: decoded at the container's rate and channel count
C30_Witness ==
  /\ WavReturned
  /\ call.args.hints = Hints("pcm16le", 32000, 2)
  /\ call.args.wav = [hasFmt |-> TRUE, hasData |-> TRUE, fmt |-> 1, ch |-> 1,
                      sr |-> 8000, bps |-> 16]
  /\ call.args.frames = MaxFrames
  /\ call.result.ok
  /\ Len(call.result.data) = 4 * MaxFrames

\* ========================================================================
\* Downlink timer, session hints, ordering
\* ========================================================================
\* C31: at most one flush timer is pending in a session at any time: a binary
\* chunk of the upstream is always appended to the downlink buffer and arms
\* the single-shot timer only when none is pending, and a timer that fired is
\* no longer pending afterwards.
C31_SingleFlushTimer ==
  /\ [](flushTimeouts \in {0, 1} /\ (downTimer <=> flushTimeouts = 1))
  /\ [][/\ upIn' # upIn =>
             /\ downAcc' = downAcc \o upIn'[Len(upIn')]
             /\ downTimer'
             /\ flushTimeouts' = IF downTimer THEN flushTimeouts ELSE flushTimeouts + 1
        /\ (downTimer /\ ~downTimer') => flushTimeouts' = 0]_vars

\* two chunks arrived while one timer was pending: both are buffered, one
\* timeout is held
C31_Witness ==
  /\ Len(upIn) >= 2
  /\ downAcc = UpInBytes
  /\ downTimer /\ flushTimeouts = 1

\* The single session with a client that sends every kind of message, among
\* them audio_meta messages with fields left out and legacy audio that
\* carries a format of its own, and an upstream that answers; nobody closes
HintedLegacyTexts(k) ==
  { Text([EmptyObj EXCEPT !.type = "voicechunk", !.encoding = "mulaw",
                          !.sample_rate = 32000, !.channels = 2,
                          !.b64 = B64Encode(MkBytes(k, 4))]) }

ClientHintText ==
  /\ clientRS \in {"OPEN", "CLOSING"}
  /\ nClientMsgs + nUpMsgs < MaxMsgs
  /\ \E msg \in MetaTexts \cup HintedLegacyTexts(nClientMsgs + 1)
                  \cup ClientTexts(nClientMsgs + 1) :
       onClientText(msg)

HintsNext ==
  \/ UpstreamOpen
  \/ ClientHintText
  \/ ClientBinary
  \/ UpstreamBinary
  \/ UpstreamJson

HintsSpec == Init /\ [][HintsNext]_vars

\* the audio_meta messages of this client
HintMetas ==
  MetaTexts \cup { Text([EmptyObj EXCEPT !.type = "audio_meta", !.encoding = "MULAW",
                                         !.sample_rate = 8000]) }

\* the fields obj supplies are taken, the others keep their value
OnlySupplied(obj, old, new) ==
  /\ new.encoding = IF obj.encoding # "" THEN ToLowerCase(obj.encoding) ELSE old.encoding
  /\ new.sample_rate = IF obj.sample_rate # 0 THEN obj.sample_rate
                       ELSE IF obj.sampleRate # 0 THEN obj.sampleRate
                       ELSE old.sample_rate
  /\ new.channels = IF obj.channels # Nullish THEN obj.channels ELSE old.channels

\* C32: the session hints are changed by audio_meta messages only: binary
\* audio, legacy base64 audio (also when it carries an encoding, a sample rate
\* or channels of its own), passthrough JSON, invalid text and every upstream
\* event leave them as they are; an audio_meta message changes the fields it
\* supplies and keeps the value of every field it omits.
C32_HintsFrame ==
  [][/\ ~ClientMsgHandled("meta") => sessionHints' = sessionHints
     /\ ClientMsgHandled("meta") =>
          \A msg \in HintMetas :
            onClientText(msg) => OnlySupplied(msg.obj, sessionHints, sessionHints')]_vars

\* after a message that set all three fields, a message that supplied only a
\* rate: encoding and channels are the earlier ones; a legacy chunk with a
\* format of its own was normalized in between or afterwards
C32_Witness ==
  /\ sessionHints = Hints("wav", 8000, 2)
  /\ Len(clientLog) = 3
  /\ Has(clientLog, "audio")

\* the bytes of the upstream's m-th message, a binary chunk, are part of data
CarriesChunk(data, m) ==
  \E c \in UpstreamChunks(m) :
    \E o \in 1..Len(data) : o + Len(c) - 1 <= Len(data) /\ SubSeq(data, o, o + Len(c) - 1) = c

\* C33: the client receives the upstream's output in the order the upstream
\* sent it, across both kinds: wherever the client has been sent an upstream
\* JSON event and, after it, binary audio, that audio holds nothing the
\* upstream sent before the event.
C33_DownlinkOrderAcrossKinds ==
  \A i \in 1..Len(clientOut) : \A j \in 1..Len(clientOut) :
    ( /\ i < j
      /\ clientOut[i].kind = "json"
      /\ clientOut[i].obj.type = "chat_message"
      /\ clientOut[j].kind = "bin" )
    => \A m \in 1..nUpMsgs :
         CarriesChunk(clientOut[j].data, m) => m > clientOut[i].obj.seq

\* how many of the first n entries of a log of outcomes are tag
TagsUpTo(log, tag, n) == Cardinality({ y \in 1..n : log[y] = tag })

\* the normalized audio of the client's messages that came before its r-th
\* passthrough JSON message
AudioBeforeJson(r) ==
  LET at == { x \in 1..Len(clientLog) :
                clientLog[x] = "json" /\ TagsUpTo(clientLog, "json", x) = r }
  IN IF at = {} THEN <<>>
     ELSE LET x == CHOOSE y \in at : TRUE
          IN Concat(SubSeq(normLog, 1, TagsUpTo(clientLog, "audio", x)))

\* C34: the upstream receives the client's input in the order the client
\* sent it, across both kinds: wherever the upstream has been sent a control
\* JSON message and, after it, an audio frame, all the audio the client sent
\* before that JSON message had been written before it, so that the frame
\* holds later audio only.
C34_UplinkOrderAcrossKinds ==
  \A i \in 1..Len(upSent) : \A j \in 1..Len(upSent) :
    ( /\ i < j
      /\ upSent[i].kind = "json"
      /\ upSent[j].kind = "bin" )
    => LET r == Cardinality({ y \in 1..i : upSent[y].kind = "json" })
       IN Len(Concat(BinData(SubSeq(upSent, 1, i)))) >= Len(AudioBeforeJson(r))

\* ------------------------------------------------------------------------
\* The debug recordings of a server that accepted several clients
\* ------------------------------------------------------------------------
\* milliseconds the clock advances while the server runs
MaxClock == 2

RECORD_DIR == ".recordings"

\* path.join(RECORD_DIR, `session_${Date.now()}.wav`)
WavPath(now) == <<RECORD_DIR, "session_", now, ".wav">>

NoPath == <<>>

Recorders == sessions.handlers
RecFiles == sessions.files

RecordInit ==
  /\ GatewayInit
  /\ call = NoCall
  /\ sessions = [now |-> 0, handlers |-> <<>>, files |-> {}]

\* Date.now() moves on by a millisecond
ClockTick ==
  /\ sessions.now < MaxClock
  /\ sessions' = [sessions EXCEPT !.now = @ + 1]
  /\ UNCHANGED <<gatewayVars, call>>

\* wss.on("connection"): the handler awaits upstream.connect()
RecAccept ==
  /\ Len(Recorders) < MaxSessions
  /\ sessions' = [sessions EXCEPT !.handlers =
                    Append(@, [pc |-> "connecting", wavPath |-> NoPath, accPcm |-> <<>>,
                               nAudio |-> 0, clientRS |-> "OPEN", wrote |-> FALSE])]
  /\ UNCHANGED <<gatewayVars, call>>

\* upstream.connect() resolves in handler h: wavPath is made from the clock
RecUpstreamOpen(h) ==
  /\ Recorders[h].pc = "connecting"
  /\ sessions' = [sessions EXCEPT !.handlers[h].pc = "active",
                                  !.handlers[h].wavPath = WavPath(sessions.now)]
  /\ UNCHANGED <<gatewayVars, call>>

\* the client of handler h sends binary audio: normalized and recorded
RecClientAudio(h) ==
  /\ Recorders[h].pc = "active"
  /\ Recorders[h].clientRS = "OPEN"
  /\ Recorders[h].nAudio < MaxServerMsgs
  /\ LET normalized ==
           normalizeToStandardPcm(Payload(MkBytes(10 * h + Recorders[h].nAudio, 2), FALSE),
                                  Hints(DEFAULT_IN_ENCODING, TARGET_SR, TARGET_CH))
     IN sessions' = [sessions EXCEPT
                       !.handlers[h].accPcm = IF normalized.ok THEN record(@, normalized.data)
                                              ELSE @,
                       !.handlers[h].nAudio = @ + 1]
  /\ UNCHANGED <<gatewayVars, call>>

\* fs.writeFileSync(filepath, ...): the file at the path is replaced
writeFileSync(files, path, data) ==
  { f \in files : f.path # path } \cup { [path |-> path, data |-> data] }

\* the client of handler h closes: the "close" listener, registered once the
\* upstream is connected, writes the recording when there is audio; the write
\* may throw, which is caught
RecClientClose(h) ==
  /\ Recorders[h].clientRS = "OPEN"
  /\ \E throws \in BOOLEAN :
       LET written == /\ Recorders[h].pc = "active"
                      /\ ENABLE_RECORD
                      /\ Len(Recorders[h].accPcm) > 0
                      /\ ~throws
       IN sessions' = [sessions EXCEPT
                         !.handlers[h].clientRS = "CLOSED",
                         !.handlers[h].wrote = written,
                         !.files = IF written
                                   THEN writeFileSync(@, Recorders[h].wavPath,
                                                      Recorders[h].accPcm)
                                   ELSE @]
  /\ UNCHANGED <<gatewayVars, call>>

RecordNext ==
  \/ ClockTick
  \/ RecAccept
  \/ \E h \in 1..Len(Recorders) : RecUpstreamOpen(h)
  \/ \E h \in 1..Len(Recorders) : RecClientAudio(h)
  \/ \E h \in 1..Len(Recorders) : RecClientClose(h)

RecordSpec == RecordInit /\ [][RecordNext]_vars

\* C35: sessions share no state through the debug recording: any two
\* distinct sessions, also two whose upstream connects complete within the
\* same millisecond, have distinct recording files, and the file a session
\* wrote keeps holding that session's audio.
C35_RecordingsDistinct ==
  /\ \A h1 \in 1..Len(Recorders) : \A h2 \in 1..Len(Recorders) :
       (h1 # h2 /\ Recorders[h1].pc = "active" /\ Recorders[h2].pc = "active")
         => Recorders[h1].wavPath # Recorders[h2].wavPath
  /\ \A h \in 1..Len(Recorders) :
       Recorders[h].wrote
         => [path |-> Recorders[h].wavPath, data |-> Recorders[h].accPcm] \in RecFiles

====
